---------------------------- MODULE Spec2Model ----------------------------
(***************************************************************************)
(* A model of the StockDashboard server: the report catalog (dataLoader),  *)
(* the JSON normalizer, the Markdown/JSON merge, the Saul rule scorer, the *)
(* derived-metrics calculator, the live-price overlay, the sheet poller    *)
(* and the comparison and live-section state of the browser client.        *)
(*                                                                         *)
(* JavaScript values that may be null are modelled as tuples of length 0   *)
(* or 1: <<>> is null/undefined, <<v>> is the value v.  Numbers are exact  *)
(* decimals m * 10^e, so that scaling by suffixes and rounding to two      *)
(* decimals are exact.                                                     *)
(***************************************************************************)
EXTENDS Integers, Sequences, FiniteSets, TLC

VARIABLES
    fnIn,    \* argument of the pure function under examination
    fnOut,   \* its result
    fnPc,    \* "call" before the function ran, then the name of the step taken
    disk,               \* the reports directory: exists, and its subdirectories
    portfolioFile,      \* portfolio.json: null when unreadable, else its holdings
    liveData,           \* sheetsPoller.getLiveData(): null or the stocks
    server,             \* "starting", "serving" or "crashed"
    cachedCompanies,    \* dataLoader: normalized and enriched records
    cachedAnalyses,     \* dataLoader: parsed analyses keyed by ticker
    cachedRawMarkdown,  \* dataLoader: raw markdown keyed by ticker
    lastLoadTime,       \* dataLoader: null until a load completed
    portfolioHoldings,  \* dataLoader: uppercased holdings
    refreshTimer,       \* dataLoader: is the auto-refresh interval set
    intervals,          \* the interval timers dataLoader set and nothing cleared
    storedCompanies,    \* history: the array dataLoader last assigned to the cache
    overlaidSinceLoad,  \* history: a live price was overlaid since that assignment
    response,           \* the response of the request handled last, or null
    lastOp,             \* history: the step taken last and what the caches were
    cachedData,         \* sheetsPoller: null or the parsed sheet
    lastFetchTime,      \* sheetsPoller: null or the time of the parse cached
    pollingTimer,       \* sheetsPoller: is the polling interval set
    fetches,            \* sheetsPoller: the fetchAndCache call of each caller
    forceAnswer,        \* what the forceRefresh call last completed gave
    lastFetch,          \* history: how the fetch settled last ended, and the cache before
    currentDashboard,   \* App: the dashboard rendered last ("none" before the first)
    comparisonCompanies, \* App: the tickers of the comparison companies, in order
    stockRequests,      \* API.getStock fetches awaited by _addComparison, per ticker
    apiStock,           \* API._cache: what is cached for each stock key
    apiLive,            \* API._cache.live_portfolio: "none" or the kind of data cached
    liveRenders,        \* LiveSection.render calls awaiting the live-portfolio fetch
    liveRefreshTimer,   \* LiveSection._refreshTimer is set
    liveTimers          \* the interval timers LiveSection set and did not clear

pollerVars == <<cachedData, lastFetchTime, pollingTimer, fetches, forceAnswer, lastFetch>>

clientVars == <<currentDashboard, comparisonCompanies, stockRequests, apiStock, apiLive,
                liveRenders, liveRefreshTimer, liveTimers>>

\* What a step of the catalog leaves alone besides the files and live data.
fnVars == <<fnIn, fnOut, fnPc, pollerVars, clientVars>>

\* What the application of a pure function leaves alone.
catVars == <<disk, portfolioFile, liveData, server, cachedCompanies, cachedAnalyses,
             cachedRawMarkdown, lastLoadTime, portfolioHoldings, refreshTimer,
             intervals, storedCompanies, overlaidSinceLoad, response, lastOp,
             pollerVars, clientVars>>

vars == <<fnVars, catVars>>

\* ------------------------------------------------------------------------
\* JavaScript values
\* ------------------------------------------------------------------------

Null == <<>>

Some(v) == <<v>>

IsNull(x) == x = Null

\* The sheet poller is not part of the run.
PollerIdle ==
    /\ cachedData = Null
    /\ lastFetchTime = Null
    /\ pollingTimer = FALSE
    /\ fetches = <<>>
    /\ forceAnswer = Null
    /\ lastFetch = [kind |-> "none"]

\* The browser client is not part of the run.
ClientIdle ==
    /\ currentDashboard = "none"
    /\ comparisonCompanies = <<>>
    /\ stockRequests = <<>>
    /\ apiStock = <<>>
    /\ apiLive = "none"
    /\ liveRenders = 0
    /\ liveRefreshTimer = FALSE
    /\ liveTimers = 0

\* The catalog as constructed.
CatalogAtRest ==
    /\ disk = [exists |-> FALSE, dirs |-> <<>>]
    /\ portfolioFile = Null
    /\ liveData = Null
    /\ server = "starting"
    /\ cachedCompanies = <<>>
    /\ cachedAnalyses = <<>>
    /\ cachedRawMarkdown = <<>>
    /\ lastLoadTime = Null
    /\ portfolioHoldings = <<>>
    /\ refreshTimer = FALSE
    /\ intervals = 0
    /\ storedCompanies = <<>>
    /\ overlaidSinceLoad = FALSE
    /\ response = Null
    /\ lastOp = [kind |-> "none"]

\* The server is not part of the run: its variables stay as constructed.
CatalogIdle == CatalogAtRest /\ PollerIdle /\ ClientIdle

FnAtRest == fnIn = Null /\ fnOut = Null /\ fnPc = "idle"

\* No pure function is under examination.
FnIdle == FnAtRest /\ PollerIdle /\ ClientIdle

Range(s) == {s[i] : i \in DOMAIN s}

SeqsUpTo(S, n) == UNION {[1..k -> S] : k \in 0..n}

Min(a, b) == IF a < b THEN a ELSE b

Max(a, b) == IF a > b THEN a ELSE b

\* Math.round(num / den) for den > 0: halves go up (towards +Infinity).
MathRound(num, den) == (2 * num + den) \div (2 * den)

\* ------------------------------------------------------------------------
\* saulUtils.js: the tiered scorer
\* ------------------------------------------------------------------------

TIER_DEFS ==
    [tier1 |-> <<"R_001", "R_001A", "R_003", "R_006">>,
     tier2 |-> <<"R_002", "R_004", "R_005", "R_007", "R_008", "R_009">>,
     tier3 |-> <<"R_010", "R_011", "R_012", "R_013", "R_014", "R_015", "R_016", "R_017">>,
     tier4 |-> <<"R_018", "R_019", "R_020", "R_021", "R_022", "R_023", "R_024">>]

Restrict(f, S) == [x \in S |-> f[x]]

\* A classification whose last branch takes every rule left over.
classifyTiersCatchAll(rules) ==
    LET in1(r) == r \in Range(TIER_DEFS.tier1)
        in2(r) == r \in Range(TIER_DEFS.tier2)
        in3(r) == r \in Range(TIER_DEFS.tier3)
        D == DOMAIN rules
    IN  [tier1 |-> Restrict(rules, {r \in D : in1(r)}),
         tier2 |-> Restrict(rules, {r \in D : ~in1(r) /\ in2(r)}),
         tier3 |-> Restrict(rules, {r \in D : ~in1(r) /\ ~in2(r) /\ in3(r)}),
         tier4 |-> Restrict(rules, {r \in D : ~in1(r) /\ ~in2(r) /\ ~in3(r)})]

\* The if / else-if chain that puts each rule into the first tier listing it.
classifyTiers(rules) ==
    LET in1(r) == r \in Range(TIER_DEFS.tier1)
        in2(r) == r \in Range(TIER_DEFS.tier2)
        in3(r) == r \in Range(TIER_DEFS.tier3)
        in4(r) == r \in Range(TIER_DEFS.tier4)
        D == DOMAIN rules
    IN  [tier1 |-> Restrict(rules, {r \in D : in1(r)}),
         tier2 |-> Restrict(rules, {r \in D : ~in1(r) /\ in2(r)}),
         tier3 |-> Restrict(rules, {r \in D : ~in1(r) /\ ~in2(r) /\ in3(r)}),
         tier4 |-> Restrict(rules, {r \in D : ~in1(r) /\ ~in2(r) /\ ~in3(r) /\ in4(r)})]

countStatus(tierObj, statuses) ==
    Cardinality({r \in DOMAIN tierObj : tierObj[r] \in statuses})

hasStatus(tierObj, statuses) ==
    \E r \in DOMAIN tierObj : tierObj[r] \in statuses

\* A base score that forgets the FAIL/DISQUALIFIED branch.
baseScoreOfNoFailBranch(tier1) ==
    IF Cardinality(DOMAIN tier1) = 0 THEN 0
    ELSE IF hasStatus(tier1, {"CAUTION", "WARNING"}) THEN 50
    ELSE 70

baseScoreOf(tier1) ==
    IF Cardinality(DOMAIN tier1) = 0 THEN 0
    ELSE IF hasStatus(tier1, {"FAIL", "DISQUALIFIED", "DISQ"}) THEN 0
    ELSE IF hasStatus(tier1, {"CAUTION", "WARNING"}) THEN 50
    ELSE 70

\* A bonus that truncates (Math.floor) instead of rounding.
tier2BonusOfFloor(tier2Passes, tier2Applicable) ==
    IF tier2Applicable > 0 THEN (tier2Passes * 25) \div tier2Applicable ELSE 0

tier2BonusOf(tier2Passes, tier2Applicable) ==
    IF tier2Applicable > 0 THEN MathRound(tier2Passes * 25, tier2Applicable) ELSE 0

warningPenaltyOf(tier4Warnings) == Min(tier4Warnings * 2, 10)

\* A conviction whose Medium threshold on the warnings is that of High.
convictionOfOneWarning(tier3Passes, tier4Warnings) ==
    IF tier3Passes >= 5 /\ tier4Warnings <= 1 THEN "High"
    ELSE IF tier3Passes >= 3 /\ tier4Warnings <= 1 THEN "Medium"
    ELSE "Low"

convictionOf(tier3Passes, tier4Warnings) ==
    IF tier3Passes >= 5 /\ tier4Warnings <= 1 THEN "High"
    ELSE IF tier3Passes >= 3 /\ tier4Warnings <= 3 THEN "Medium"
    ELSE "Low"

\* The returned object, from the classified rules and the figures counted.
summaryObject(tiers, baseScore, tier2Passes, tier2Applicable, tier2Bonus, tier3Passes, tier4Warnings, warningPenalty) ==
    Some([tiers |-> tiers,
          score |-> Max(0, Min(100, baseScore + tier2Bonus - warningPenalty)),
          conviction |-> convictionOf(tier3Passes, tier4Warnings),
          baseScore |-> baseScore,
          tier2Bonus |-> tier2Bonus,
          warningPenalty |-> warningPenalty,
          tier1Count |-> Cardinality(DOMAIN tiers.tier1),
          tier2Passes |-> tier2Passes,
          tier2Applicable |-> tier2Applicable,
          tier3Passes |-> tier3Passes,
          tier4Warnings |-> tier4Warnings])

summaryOfCounts(tiers, tier2Passes, tier2Applicable, tier4Warnings) ==
    summaryObject(tiers, baseScoreOf(tiers.tier1), tier2Passes, tier2Applicable,
                  tier2BonusOf(tier2Passes, tier2Applicable),
                  countStatus(tiers.tier3, {"PASS"}),
                  tier4Warnings, warningPenaltyOf(tier4Warnings))

summaryOfTiers(tiers) ==
    summaryOfCounts(tiers,
                    countStatus(tiers.tier2, {"PASS"}),
                    Cardinality(DOMAIN tiers.tier2)
                        - countStatus(tiers.tier2, {"N/A", "INSUFFICIENT_DATA", "UNCLEAR"}),
                    countStatus(tiers.tier4, {"WARNING", "CAUTION"}))

\* rules is null (<<>>) or <<m>> with m a function from rule ids to statuses.
computeSaulSummary(rules) ==
    IF IsNull(rules) \/ DOMAIN rules[1] = {} THEN Null
    ELSE
      summaryOfTiers(classifyTiers(rules[1]))

\* ------------------------------------------------------------------------
\* The scorer applied to bounded rule maps
\* ------------------------------------------------------------------------

\* Most rules of tier 1 and of tier 2 a drawn rule map populates.
MaxPerTier == 2

Tier1Statuses == {"PASS", "FAIL", "DISQUALIFIED", "DISQ", "CAUTION", "WARNING"}

Tier2Statuses == {"PASS", "FAIL", "N/A", "INSUFFICIENT_DATA", "UNCLEAR"}

\* The map giving the first Len(ss) rules of a tier list the statuses ss.
TierMap(tierList, ss) ==
    [r \in {tierList[i] : i \in 1..Len(ss)} |->
        ss[CHOOSE i \in 1..Len(ss) : tierList[i] = r]]

\* n PASS entries followed by k FAIL entries.
PassThenFail(n, k) == [i \in 1..(n + k) |-> IF i <= n THEN "PASS" ELSE "FAIL"]

\* n warnings, alternately WARNING and CAUTION.
Warnings(n) == [i \in 1..n |-> IF i % 2 = 1 THEN "WARNING" ELSE "CAUTION"]

\* Rule ids outside the four tier lists.
UnknownRules == {<<>>, [r \in {"R_099"} |-> "FAIL"], [r \in {"R_025", "X_1"} |-> "PASS"]}

\* Tier 1, tier 2 and tier 4 vary together (the score); tier 3 is empty.
ScoreMaps ==
    {TierMap(TIER_DEFS.tier1, s1) @@ TierMap(TIER_DEFS.tier2, s2)
        @@ TierMap(TIER_DEFS.tier4, Warnings(w)) :
        s1 \in SeqsUpTo(Tier1Statuses, Min(MaxPerTier, Len(TIER_DEFS.tier1))),
        s2 \in SeqsUpTo(Tier2Statuses, Min(MaxPerTier, Len(TIER_DEFS.tier2))),
        w \in 0..Len(TIER_DEFS.tier4)}

\* Tier 3 and tier 4 vary together (the conviction) beside a few tier 1/2 maps.
ConvictionMaps ==
    {TierMap(TIER_DEFS.tier1, s1) @@ TierMap(TIER_DEFS.tier2, s2)
        @@ TierMap(TIER_DEFS.tier3, PassThenFail(p, k))
        @@ TierMap(TIER_DEFS.tier4, Warnings(w) \o PassThenFail(x, 0)) @@ u :
        s1 \in {<<>>, <<"PASS">>, <<"FAIL">>, <<"CAUTION", "PASS">>},
        s2 \in {<<>>, <<"PASS">>, <<"FAIL", "PASS">>},
        p \in 0..(Len(TIER_DEFS.tier3) - 1), k \in 0..1,
        w \in 0..(Len(TIER_DEFS.tier4) - 1), x \in 0..1,
        u \in UnknownRules}

SaulInputs == {Null} \cup {Some(m) : m \in ScoreMaps \cup ConvictionMaps}

InitSaul ==
    /\ fnIn \in SaulInputs
    /\ fnOut = Null
    /\ fnPc = "call"
    /\ CatalogIdle

SaulScore ==
    /\ fnPc = "call"
    /\ fnOut' = computeSaulSummary(fnIn)
    /\ fnPc' = "done"
    /\ UNCHANGED <<fnIn, catVars>>

NextSaul == SaulScore

SpecSaul == InitSaul /\ [][NextSaul]_vars

\* The rule ids of a tier that a rule map populates, and status counts there.
InTier(m, tierList) == DOMAIN m \cap Range(tierList)

NumWith(m, tierList, statuses) ==
    Cardinality({r \in InTier(m, tierList) : m[r] \in statuses})

ScoredNonEmpty == fnPc = "done" /\ ~IsNull(fnIn) /\ DOMAIN fnIn[1] # {}

Tier1HasFail == NumWith(fnIn[1], TIER_DEFS.tier1, {"FAIL"}) > 0

\* C7 as stated: a Tier-1 FAIL makes the score 0 whatever the other tiers hold.
C7_FailScoresZero ==
    (ScoredNonEmpty /\ Tier1HasFail) => fnOut[1].score = 0

\* C7 amended: a Tier-1 FAIL makes the base score 0; the score is then the
\* Tier-2 bonus less the warning penalty, floored at 0 and at most 25, and it
\* is 0 when Tier 2 holds no PASS.
C7_FailZeroesBase ==
    (ScoredNonEmpty /\ Tier1HasFail) =>
        /\ ~IsNull(fnOut)
        /\ fnOut[1].baseScore = 0
        /\ fnOut[1].score = Max(0, fnOut[1].tier2Bonus - fnOut[1].warningPenalty)
        /\ fnOut[1].score <= 25
        /\ (NumWith(fnIn[1], TIER_DEFS.tier2, {"PASS"}) = 0 => fnOut[1].score = 0)

\* A Tier-1 FAIL beside a Tier-1 PASS, with a Tier-2 PASS and a Tier-4 warning.
C7_Witness ==
    /\ ScoredNonEmpty /\ Tier1HasFail
    /\ NumWith(fnIn[1], TIER_DEFS.tier1, {"PASS"}) > 0
    /\ NumWith(fnIn[1], TIER_DEFS.tier2, {"PASS"}) > 0
    /\ NumWith(fnIn[1], TIER_DEFS.tier4, {"WARNING", "CAUTION"}) > 0

\* C8: for every non-empty rule map the audit fields follow the tiered formula:
\* base 0 / 50 / 70 from Tier 1, bonus = 25 * passes / applicable rounded half
\* up, penalty = min(10, 2 * warnings), score = clamp(base + bonus - penalty).
C8_AuditFormula ==
    ScoredNonEmpty =>
        LET m == fnIn[1]
            out == fnOut[1]
            n1 == Cardinality(InTier(m, TIER_DEFS.tier1))
            fails == NumWith(m, TIER_DEFS.tier1, {"FAIL", "DISQUALIFIED", "DISQ"})
            cautions == NumWith(m, TIER_DEFS.tier1, {"CAUTION", "WARNING"})
            base == IF n1 = 0 \/ fails > 0 THEN 0 ELSE IF cautions > 0 THEN 50 ELSE 70
            applicable == Cardinality(InTier(m, TIER_DEFS.tier2))
                - NumWith(m, TIER_DEFS.tier2, {"N/A", "INSUFFICIENT_DATA", "UNCLEAR"})
            passes == NumWith(m, TIER_DEFS.tier2, {"PASS"})
            warnings == NumWith(m, TIER_DEFS.tier4, {"WARNING", "CAUTION"})
            penalty == IF 2 * warnings > 10 THEN 10 ELSE 2 * warnings
            sum == out.baseScore + out.tier2Bonus - out.warningPenalty
        IN  /\ ~IsNull(fnOut)
            /\ out.baseScore = base
            /\ out.tier2Applicable = applicable
            /\ out.tier2Passes = passes
            /\ applicable = 0 => out.tier2Bonus = 0
            \* b = round-half-up(25 p / a)  iff  2ab <= 50p + a < 2a(b + 1)
            /\ applicable > 0 =>
                  /\ 2 * applicable * out.tier2Bonus <= 50 * passes + applicable
                  /\ 50 * passes + applicable < 2 * applicable * (out.tier2Bonus + 1)
            /\ out.warningPenalty = penalty
            /\ out.score = (IF sum < 0 THEN 0 ELSE IF sum > 100 THEN 100 ELSE sum)

\* An exact half (12.5) in the bonus, a capped penalty and a 50 base at once.
C8_Witness ==
    /\ ScoredNonEmpty
    /\ fnOut[1].tier2Passes = 1 /\ fnOut[1].tier2Applicable = 2
    /\ fnOut[1].tier2Bonus = 13
    /\ fnOut[1].tier4Warnings > 5 /\ fnOut[1].warningPenalty = 10
    /\ fnOut[1].baseScore = 50

\* The rule ids of the four tier lists, and a rule map restricted to them.
TierIds == UNION {Range(TIER_DEFS[tier]) : tier \in DOMAIN TIER_DEFS}

Recognized(m) == Restrict(m, DOMAIN m \cap TierIds)

EmptyTiers == [tier \in DOMAIN TIER_DEFS |-> <<>>]

\* C18 as stated: for every rule map the scorer gives what it gives for the
\* map restricted to the ids of the four tier lists, null or not alike.
C18_UnknownRulesDropped ==
    (fnPc = "done" /\ ~IsNull(fnIn)) =>
        fnOut = computeSaulSummary(Some(Recognized(fnIn[1])))

\* C18 amended: a rule map with at least one recognized id (or with no id
\* at all) is scored as its restriction to the recognized ids; a non-empty
\* map of unrecognized ids only is not null but scored as four empty tiers:
\* score 0, conviction Low, every count 0.
C18_UnknownRulesIgnored ==
    (fnPc = "done" /\ ~IsNull(fnIn)) =>
        /\ (DOMAIN Recognized(fnIn[1]) # {} \/ DOMAIN fnIn[1] = {}) =>
               fnOut = computeSaulSummary(Some(Recognized(fnIn[1])))
        /\ (DOMAIN Recognized(fnIn[1]) = {} /\ DOMAIN fnIn[1] # {}) =>
               /\ ~IsNull(fnOut)
               /\ fnOut[1].tiers = EmptyTiers
               /\ fnOut[1].score = 0 /\ fnOut[1].baseScore = 0
               /\ fnOut[1].tier2Bonus = 0 /\ fnOut[1].warningPenalty = 0
               /\ fnOut[1].conviction = "Low"
               /\ fnOut[1].tier1Count = 0 /\ fnOut[1].tier2Passes = 0
               /\ fnOut[1].tier2Applicable = 0 /\ fnOut[1].tier3Passes = 0
               /\ fnOut[1].tier4Warnings = 0

\* An unrecognized FAIL beside a Tier-1 PASS: the base score stays 70 and
\* the unrecognized id is in no tier.
C18_Witness ==
    /\ ScoredNonEmpty
    /\ "R_099" \in DOMAIN fnIn[1] /\ fnIn[1]["R_099"] = "FAIL"
    /\ DOMAIN fnOut[1].tiers.tier1 = {"R_001"}
    /\ fnOut[1].baseScore = 70
    /\ \A tier \in DOMAIN TIER_DEFS : "R_099" \notin DOMAIN fnOut[1].tiers[tier]

\* C19: for every non-empty rule map the conviction is High exactly when
\* Tier 3 has at least 5 PASS and Tier 4 at most 1 WARNING/CAUTION, else
\* Medium exactly when Tier 3 has at least 3 PASS and Tier 4 at most 3
\* warnings, else Low, whatever Tier 1 and Tier 2 hold.
C19_ConvictionFromTiers34 ==
    ScoredNonEmpty =>
        /\ ~IsNull(fnOut)
        /\ fnOut[1].conviction =
               (IF /\ NumWith(fnIn[1], TIER_DEFS.tier3, {"PASS"}) >= 5
                   /\ NumWith(fnIn[1], TIER_DEFS.tier4, {"WARNING", "CAUTION"}) <= 1
                THEN "High"
                ELSE IF /\ NumWith(fnIn[1], TIER_DEFS.tier3, {"PASS"}) >= 3
                        /\ NumWith(fnIn[1], TIER_DEFS.tier4, {"WARNING", "CAUTION"}) <= 3
                THEN "Medium"
                ELSE "Low")

\* Three Tier-3 passes and three Tier-4 warnings beside a Tier-1 FAIL: the
\* base score is 0 and the conviction Medium.
C19_Witness ==
    /\ ScoredNonEmpty
    /\ Tier1HasFail
    /\ fnOut[1].tier3Passes = 3
    /\ fnOut[1].tier4Warnings = 3
    /\ fnOut[1].baseScore = 0
    /\ fnOut[1].conviction = "Medium"

\* ------------------------------------------------------------------------
\* normalizer.js: numeric coercion (safeNum, toMillions)
\*
\* A raw JSON value is a tagged record: JNull, JNum(n) or JStr(s), s being
\* the string as a sequence of one-character strings.  A number parsed from
\* a string is a decimal Dec(m, e) = m * 10^e kept normalized (m has no
\* trailing zero; zero is Dec(0, 0)), so multiplying and dividing by powers
\* of ten is exact; NaN is a value of its own.  Strings are drawn without
\* exponent letters, so parseFloat's exponent part never applies.
\* ------------------------------------------------------------------------

JNull == [t |-> "null"]

JNum(n) == [t |-> "num", n |-> n]

JStr(s) == [t |-> "str", s |-> s]

NaN == [nan |-> TRUE, m |-> 0, e |-> 0]

RECURSIVE DecNorm(_, _)
DecNorm(m, e) ==
    IF m = 0 THEN [nan |-> FALSE, m |-> 0, e |-> 0]
    ELSE IF m % 10 = 0 THEN DecNorm(m \div 10, e + 1)
    ELSE [nan |-> FALSE, m |-> m, e |-> e]

Dec(m, e) == DecNorm(m, e)

\* d * 10^k (NaN stays NaN).
DecShift(d, k) == IF d.nan THEN NaN ELSE DecNorm(d.m, d.e + k)

RECURSIVE Pow10(_)
Pow10(k) == IF k = 0 THEN 1 ELSE 10 * Pow10(k - 1)

Abs(n) == IF n < 0 THEN -n ELSE n

\* Math.abs(d) > 10^k, for 0 <= k <= 9 (false for NaN, as NaN > x is).
DecAbsGtPow10(d, k) ==
    IF d.nan \/ d.m = 0 THEN FALSE
    ELSE IF d.e > k THEN TRUE
    ELSE IF k - d.e > 9 THEN FALSE
    ELSE Abs(d.m) > Pow10(k - d.e)

Digits == {"0", "1", "2", "3", "4", "5", "6", "7", "8", "9"}

DigitVal(c) ==
    CASE c = "0" -> 0 [] c = "1" -> 1 [] c = "2" -> 2 [] c = "3" -> 3 [] c = "4" -> 4
      [] c = "5" -> 5 [] c = "6" -> 6 [] c = "7" -> 7 [] c = "8" -> 8 [] c = "9" -> 9

RECURSIVE DigitsToInt(_)
DigitsToInt(ds) ==
    IF ds = <<>> THEN 0
    ELSE 10 * DigitsToInt(SubSeq(ds, 1, Len(ds) - 1)) + DigitVal(ds[Len(ds)])

\* The characters of s that are not in drop, in order: s.replace(/[..]/g, '').
RECURSIVE StripChars(_, _)
StripChars(s, drop) ==
    IF s = <<>> THEN <<>>
    ELSE IF Head(s) \in drop THEN StripChars(Tail(s), drop)
    ELSE <<Head(s)>> \o StripChars(Tail(s), drop)

\* Length of the longest prefix of s made of characters of S.
RECURSIVE RunLen(_, _)
RunLen(s, S) ==
    IF s = <<>> \/ Head(s) \notin S THEN 0 ELSE 1 + RunLen(Tail(s), S)

Drop(s, n) == SubSeq(s, n + 1, Len(s))

\* parseFloat: the longest prefix [+-]? digits [. digits] (or [+-]? . digits)
\* of the string after leading whitespace; NaN when there is no digit.
\* The number with the given sign, integer digits and fraction digits.
parseFloatDigits(neg, intDigits, fracDigits) ==
    IF Len(intDigits) + Len(fracDigits) = 0 THEN NaN
    ELSE Dec((IF neg THEN -1 ELSE 1) * DigitsToInt(intDigits \o fracDigits),
             -Len(fracDigits))

\* The digits after the dot that s2 starts with, if it starts with one.
parseFloatFraction(s2) ==
    IF s2 # <<>> /\ Head(s2) = "." THEN SubSeq(Tail(s2), 1, RunLen(Tail(s2), Digits))
    ELSE <<>>

parseFloatUnsigned(neg, s1) ==
    parseFloatDigits(neg, SubSeq(s1, 1, RunLen(s1, Digits)),
                     parseFloatFraction(Drop(s1, RunLen(s1, Digits))))

parseFloatSigned(s0, signed) ==
    parseFloatUnsigned(signed /\ Head(s0) = "-", IF signed THEN Tail(s0) ELSE s0)

parseFloatTrimmed(s0) == parseFloatSigned(s0, s0 # <<>> /\ Head(s0) \in {"+", "-"})

parseFloat(str) == parseFloatTrimmed(Drop(str, RunLen(str, {" "})))

\* s.match(/^([+-]?[\d.]+)\s*([BMKbmk])$/): <<group 1, group 2>>, or <<>>.
suffixMatchCore(s, body, signLen, nCore, tail) ==
    IF Len(s) >= 2 /\ s[Len(s)] \in {"B", "M", "K", "b", "m", "k"}
       /\ nCore >= 1 /\ RunLen(tail, {" "}) = Len(tail)
    THEN <<SubSeq(body, 1, signLen + nCore), s[Len(s)]>>
    ELSE <<>>

suffixMatchUnsigned(s, body, signLen, core) ==
    suffixMatchCore(s, body, signLen, RunLen(core, Digits \cup {"."}),
                    Drop(core, RunLen(core, Digits \cup {"."})))

suffixMatchBody(s, body, signed) ==
    suffixMatchUnsigned(s, body, IF signed THEN 1 ELSE 0, IF signed THEN Tail(body) ELSE body)

suffixMatchSigned(s, body) ==
    suffixMatchBody(s, body, body # <<>> /\ Head(body) \in {"+", "-"})

suffixMatch(s) == suffixMatchSigned(s, SubSeq(s, 1, Len(s) - 1))

toUpperCase(c) ==
    CASE c = "b" -> "B" [] c = "m" -> "M" [] c = "k" -> "K" [] OTHER -> c

NA1 == <<"N", "/", "A">>

NA2 == <<"N", "/", "a">>

\* isNaN(parsed) ? null : parsed
safeNumParsed(parsed) == IF parsed.nan THEN Null ELSE Some(parsed)

\* The branch taken when the suffix pattern matched.
safeNumSuffixed(num, suffix, parsed) ==
    IF suffix = "B" THEN Some(DecShift(num, 3))
    ELSE IF suffix = "M" THEN Some(num)
    ELSE IF suffix = "K" THEN Some(DecShift(num, -3))
    ELSE safeNumParsed(parsed)

\* sm is the match of the suffix pattern, parsed is parseFloat of the string.
safeNumMatched(sm, parsed) ==
    IF sm # <<>> THEN safeNumSuffixed(parseFloat(sm[1]), toUpperCase(sm[2]), parsed)
    ELSE safeNumParsed(parsed)

\* s is the string with "$", "," and spaces removed.
safeNumCleaned(s) == safeNumMatched(suffixMatch(s), parseFloat(s))

safeNum(v) ==
    IF v.t = "null" THEN Null
    ELSE IF v.t = "str" /\ v.s \in {NA1, NA2, <<>>} THEN Null
    ELSE IF v.t = "num" THEN Some(v.n)
    ELSE IF v.t = "str" THEN safeNumCleaned(StripChars(v.s, {"$", ",", " "}))
    ELSE Null

\* Above 100,000 the value is taken for raw dollars and divided by 1,000,000.
toMillionsOf(n) ==
    IF IsNull(n) THEN Null
    ELSE IF DecAbsGtPow10(n[1], 5) THEN Some(DecShift(n[1], -6))
    ELSE n

toMillions(rawValue) == toMillionsOf(safeNum(rawValue))

\* ------------------------------------------------------------------------
\* The coercions applied to bounded strings and numbers
\* ------------------------------------------------------------------------

\* Most digits of a drawn numeral.
MaxDigits == 6

NumeralDigits == {"0", "1", "2"}

Numerals == UNION {[1..k -> NumeralDigits] : k \in 1..MaxDigits}

Suffixes == {"B", "M", "K", "b", "m", "k"}

\* Strings that are not numerals: decimals, separators, signs and residue.
OtherStrings ==
    {<<>>, NA1, NA2, <<".">>, <<".", ".", "B">>, <<"+", ".", "K">>,
     <<"3", ".", "4">>, <<"3", ".", "4", "B">>, <<"$", "3", ".", "4", "B">>,
     <<"1", "4", ".", "4", "M">>, <<"2", ",", "5", "0", "0">>,
     <<"2", ",", "5", "0", "0", "K">>, <<"-", "5">>, <<"+", "7", "K">>,
     <<"-", "1", ".", "5", "M">>, <<".", "5">>, <<"5", ".">>,
     <<"1", "2", "a", "b", "c">>, <<"1", ".", "2", ".", "3", "M">>,
     <<"(", "1", "2", "3", ")">>, <<"a", "b", "c">>, <<" ", "1", "2", " ">>,
     <<"2", "0", "0", "0", "0", "0", "0", "0", "0", "K">>,
     <<"1", "5", "0", " ", "B">>}

NumInputs ==
    {JNull}
    \cup {JNum(Dec(m, e)) : m \in {0, 5, -3, 100000, 100001, 2000000}, e \in {0, -2}}
    \cup {JStr(n) : n \in Numerals}
    \cup {JStr(n \o <<x>>) : n \in Numerals, x \in Suffixes}
    \cup {JStr(<<"$">> \o n \o <<x>>) : n \in Numerals, x \in {"B", "M", "K"}}
    \cup {JStr(s) : s \in OtherStrings}

InitNum ==
    /\ fnIn \in NumInputs
    /\ fnOut = Null
    /\ fnPc = "call"
    /\ CatalogIdle

CallSafeNum ==
    /\ fnPc = "call"
    /\ fnOut' = safeNum(fnIn)
    /\ fnPc' = "safeNum"
    /\ UNCHANGED <<fnIn, catVars>>

CallToMillions ==
    /\ fnPc = "call"
    /\ fnOut' = toMillions(fnIn)
    /\ fnPc' = "toMillions"
    /\ UNCHANGED <<fnIn, catVars>>

NextNum == CallSafeNum \/ CallToMillions

SpecNum == InitNum /\ [][NextNum]_vars

\* The value a numeral (digits only) denotes, scaled by 10^k.
NumeralTimesPow10(n, k) == Dec(DigitsToInt(n), k)

SuffixExponent(x) == IF x \in {"B", "b"} THEN 3 ELSE IF x \in {"M", "m"} THEN 0 ELSE -3

\* A string "n<suffix>" or "$n<suffix>" with n a digits-only numeral.
IsSuffixedNumeral(v) ==
    /\ v.t = "str"
    /\ LET s == IF v.s # <<>> /\ Head(v.s) = "$" THEN Tail(v.s) ELSE v.s
       IN  /\ Len(s) >= 2
           /\ s[Len(s)] \in Suffixes
           /\ \A i \in 1..(Len(s) - 1) : s[i] \in Digits

NumeralOf(v) ==
    LET s == IF Head(v.s) = "$" THEN Tail(v.s) ELSE v.s
    IN  SubSeq(s, 1, Len(s) - 1)

\* C9: for every numeral n, toMillions maps "nB" to n * 1000, "nM" to n and
\* "nK" to n / 1000 (with or without a leading $), whatever the size of n.
C9_SuffixedToMillions ==
    (fnPc = "toMillions" /\ IsSuffixedNumeral(fnIn)) =>
        fnOut = Some(NumeralTimesPow10(NumeralOf(fnIn),
                                       SuffixExponent(fnIn.s[Len(fnIn.s)])))


\* s without one trailing B/M/K suffix (either case), if it has one.
WithoutSuffix(s) ==
    IF s # <<>> /\ s[Len(s)] \in Suffixes THEN SubSeq(s, 1, Len(s) - 1) ELSE s

\* digits [. digits] or . digits, and nothing else.
IsUnsignedNumber(s) ==
    \/ RunLen(s, Digits) = Len(s) /\ Len(s) >= 1
    \/ /\ RunLen(s, Digits) < Len(s)
       /\ s[RunLen(s, Digits) + 1] = "."
       /\ RunLen(Drop(s, RunLen(s, Digits) + 1), Digits) = Len(s) - RunLen(s, Digits) - 1
       /\ Len(s) >= 2

\* An optional sign before an unsigned number.
IsWellFormedNumber(s) ==
    IF s # <<>> /\ Head(s) \in {"+", "-"} THEN IsUnsignedNumber(Tail(s))
    ELSE IsUnsignedNumber(s)

\* The string is entirely a well-formed number once $, commas and
\* whitespace are stripped and one trailing suffix is taken off.
FullyNumeric(v) ==
    v.t = "str" /\ IsWellFormedNumber(WithoutSuffix(StripChars(v.s, {"$", ",", " "})))

\* C21: safeNum returns null for every string that, after stripping $,
\* commas and whitespace and one trailing B/M/K suffix, is not entirely a
\* well-formed number; it returns a number only for numbers and fully
\* numeric strings.
C21_ResidueYieldsNull ==
    fnPc = "safeNum" =>
        /\ (fnIn.t = "str" /\ ~FullyNumeric(fnIn)) => IsNull(fnOut)
        /\ ~IsNull(fnOut) => (fnIn.t = "num" \/ FullyNumeric(fnIn))

\* ------------------------------------------------------------------------
\* Raw JSON documents and decimal arithmetic
\*
\* Besides JNull, JNum and JStr a raw value is JText(s) (a string that is not
\* a numeral, kept as one TLA+ string), JDate(y, m, d) (the string
\* "YYYY-MM-DD"), QLabel(q, y, fy) (the string "Qq yyyy" or "Qq FYyyyy"),
\* JArr(a) or JObj(f), f a function from property names to raw values.
\* null and undefined are not told apart: every test of the modelled code
\* on the modelled fields treats them alike.  Arithmetic is exact decimal
\* arithmetic, not IEEE doubles.
\* ------------------------------------------------------------------------

JText(s) == [t |-> "text", s |-> s]

JDate(y, m, d) == [t |-> "date", y |-> y, m |-> m, d |-> d]

QLabel(q, y, fy) == [t |-> "qlabel", q |-> q, y |-> y, fy |-> fy]

JArr(a) == [t |-> "arr", a |-> a]

JObj(f) == [t |-> "obj", f |-> f]

JBool(b) == [t |-> "bool", b |-> b]

EmptyObj == JObj(<<>>)

\* !!v of a raw value.
JsTruthy(v) ==
    CASE v.t = "null" -> FALSE
      [] v.t = "num" -> ~v.n.nan /\ v.n.m # 0
      [] v.t = "str" -> v.s # <<>>
      [] v.t = "text" -> v.s # ""
      [] v.t = "bool" -> v.b
      [] OTHER -> TRUE

\* a || b of raw values.
JsOr(a, b) == IF JsTruthy(a) THEN a ELSE b

\* obj[key]; undefined (JNull) when obj has no such property.
Prop(obj, key) ==
    IF obj.t = "obj" /\ key \in DOMAIN obj.f THEN obj.f[key] ELSE JNull

RECURSIVE digPath(_, _)
digPath(v, keys) ==
    IF keys = <<>> THEN v
    ELSE IF v.t = "null" THEN JNull
    ELSE digPath(Prop(v, Head(keys)), Tail(keys))

\* The first of the paths that leads to a value other than null/undefined.
dig(obj, paths) ==
    IF \E i \in DOMAIN paths : digPath(obj, paths[i]) # JNull
    THEN digPath(obj, paths[CHOOSE j \in DOMAIN paths :
                                /\ digPath(obj, paths[j]) # JNull
                                /\ \A k \in 1..(j - 1) : digPath(obj, paths[k]) = JNull])
    ELSE JNull

\* A nullable number (Null or Some(Dec)) is truthy unless null, 0 or NaN.
Truthy(x) == ~IsNull(x) /\ ~x[1].nan /\ x[1].m # 0

\* x || null of a nullable number.
OrNull(x) == IF Truthy(x) THEN x ELSE Null

\* A decimal as a fraction FracN / FracD with FracD a power of ten.
FracN(d) == d.m * Pow10(Max(d.e, 0))

FracD(d) == Pow10(Max(-d.e, 0))

\* Math.round((n / d) * 100) / 100.
Round2Frac(n, d) ==
    IF d > 0 THEN Dec(MathRound(100 * n, d), -2)
    ELSE Dec(MathRound(-100 * n, -d), -2)

\* a - b, a * b, and round2(a / b) for decimals a, b (b nonzero).
DecSub(a, b) ==
    LET e == Min(a.e, b.e)
    IN  Dec(a.m * Pow10(a.e - e) - b.m * Pow10(b.e - e), e)

DecGt0(a) == ~a.nan /\ a.m > 0

DecDivRound2(a, b) == Round2Frac(FracN(a) * FracD(b), FracD(a) * FracN(b))

round2(a) == Round2Frac(FracN(a), FracD(a))

\* ------------------------------------------------------------------------
\* normalizer.js: dates and quarter labels
\* ------------------------------------------------------------------------

IsLeap(y) == (y % 4 = 0 /\ y % 100 # 0) \/ y % 400 = 0

DaysInMonth(y, m) ==
    IF m = 2 THEN (IF IsLeap(y) THEN 29 ELSE 28)
    ELSE IF m \in {4, 6, 9, 11} THEN 30 ELSE 31

\* The calendar date n days before the date (y, m, d).
RECURSIVE SubDays(_, _, _, _)
SubDays(y, m, d, n) ==
    IF n < d THEN [y |-> y, m |-> m, d |-> d - n]
    ELSE LET pm == IF m = 1 THEN 12 ELSE m - 1
             py == IF m = 1 THEN y - 1 ELSE y
         IN  SubDays(py, pm, DaysInMonth(py, pm), n - d)

QuarterOfMonth(m) == IF m <= 3 THEN 1 ELSE IF m <= 6 THEN 2 ELSE IF m <= 9 THEN 3 ELSE 4

\* dateToQuarter: a date gives "Qn yyyy"; any other string is returned as is.
dateToQuarter(dateStr) ==
    IF ~JsTruthy(dateStr) THEN JNull
    ELSE IF dateStr.t = "date" THEN QLabel(QuarterOfMonth(dateStr.m), dateStr.y, FALSE)
    ELSE dateStr

\* dateToCalendarQuarter: the quarter of the day 42 days before the date.
dateToCalendarQuarter(dateStr) ==
    IF ~JsTruthy(dateStr) \/ dateStr.t # "date" THEN JNull
    ELSE LET mid == SubDays(dateStr.y, dateStr.m, dateStr.d, 42)
         IN  QLabel(QuarterOfMonth(mid.m), mid.y, FALSE)

\* ------------------------------------------------------------------------
\* normalizer.js: normalizeCompany and its extractors
\*
\* A record number is null (<<>>) or <<d>> with d a decimal.  Fields holding
\* strings keep the raw value (JText, QLabel, JDate or JNull); arrays are
\* kept as sequences.  Of the fields normalizeCompany fills, the record
\* keeps those that the merge, the calculator and the overlay read.
\* ------------------------------------------------------------------------

\* x ?? y of raw values.
Coalesce(x, y) == IF x # JNull THEN x ELSE y

\* Array.isArray(v) ? v : [].
ArrayOrEmpty(v) == IF v.t = "arr" THEN v.a ELSE <<>>

extractPrice(q, raw) ==
    safeNum(JsOr(dig(q, <<<<"price">>, <<"price_and_valuation", "current_price">>>>),
                 dig(raw, <<<<"current_stock_price">>>>)))

\* The market cap in millions from the three raw values looked up.
marketCapOf(mcMil, mcBil, mc) ==
    IF mcMil.t = "num" THEN Some(mcMil.n)
    ELSE IF mcBil.t = "num" THEN Some(DecShift(mcBil.n, 3))
    ELSE IF mc = JNull THEN Null
    ELSE IF mc.t = "num"
         THEN IF DecGt0(mc.n) /\ DecAbsGtPow10(mc.n, 9)
              THEN Some(DecShift(mc.n, -6)) ELSE Some(mc.n)
    ELSE safeNum(mc)

extractMarketCap(q, raw) ==
    marketCapOf(dig(q, <<<<"market_cap_millions">>>>),
                dig(q, <<<<"price_and_valuation", "market_cap_billions">>,
                         <<"market_cap_billions">>>>),
                dig(q, <<<<"market_cap">>, <<"price_and_valuation", "market_cap">>>>))

extractRevenue(q) ==
    toMillions(dig(q, <<<<"revenue_recent_quarterly">>, <<"revenue_recent_quarter">>,
                        <<"income_statement", "revenue_recent_quarterly">>,
                        <<"income_statement", "revenue_recent_quarter">>>>))

\* t - r when both are there, else null (the JSON extractor does not round).
PeDelta(a, b) == IF ~IsNull(a) /\ ~IsNull(b) THEN Some(DecSub(a[1], b[1])) ELSE Null

\* The pre-computed block, its six numbers each through safeNum.
precomputedCompressionOf(pca, num) ==
    Some([trailingPe |-> num["trailing_pe"],
          runRatePe |-> num["run_rate_pe"],
          forwardPe |-> num["forward_pe"],
          trailingToRunRate |-> num["trailing_to_run_rate_compression"],
          runRateToForward |-> num["run_rate_to_forward_compression"],
          totalCompression |-> num["total_compression"],
          interpretation |-> JsOr(Prop(pca, "interpretation"), JNull)])

precomputedCompression(pca) ==
    precomputedCompressionOf(pca,
        [k \in {"trailing_pe", "run_rate_pe", "forward_pe",
                "trailing_to_run_rate_compression",
                "run_rate_to_forward_compression", "total_compression"} |->
            safeNum(Prop(pca, k))])

\* The block computed from the three P/E values.
computedCompression(t, r, f) ==
    IF IsNull(t) /\ IsNull(r) /\ IsNull(f) THEN Null
    ELSE Some([trailingPe |-> t,
               runRatePe |-> r,
               forwardPe |-> f,
               trailingToRunRate |-> PeDelta(t, r),
               runRateToForward |-> PeDelta(r, f),
               totalCompression |-> PeDelta(t, f),
               interpretation |-> JNull])

extractPeCompressionOf(q, pca) ==
    IF JsTruthy(pca) THEN precomputedCompression(pca)
    ELSE computedCompression(
            safeNum(dig(q, <<<<"trailing_pe">>, <<"price_and_valuation", "trailing_pe">>>>)),
            safeNum(dig(q, <<<<"run_rate_pe">>, <<"price_and_valuation", "run_rate_pe">>>>)),
            safeNum(dig(q, <<<<"forward_pe">>, <<"price_and_valuation", "forward_pe">>>>)))

extractPeCompression(q) ==
    extractPeCompressionOf(q, dig(q, <<<<"pe_compression_analysis">>>>))

\* One entry of quantitative.quarterly_history, normalized.
\* num holds the entry's percentages through safeNum, mil its amounts
\* through toMillions.
normalizeQuarterOf(entry, quarterEnd, num, mil) ==
    [quarter |-> JsOr(Prop(entry, "quarter"),
                      JsOr(dateToQuarter(Prop(entry, "date")),
                           JsOr(dateToQuarter(quarterEnd), JText("Unknown")))),
     calendarQuarter |-> IF JsTruthy(quarterEnd)
                         THEN dateToCalendarQuarter(quarterEnd) ELSE JNull,
     quarterEnd |-> quarterEnd,
     revenueMil |-> mil["revenue"],
     revenueYoyPct |-> num["revenue_yoy_pct"],
     revenueQoqPct |-> num["revenue_qoq_pct"],
     ebitdaMil |-> mil["ebitda"]]

normalizeQuarter(entry) ==
    normalizeQuarterOf(entry,
        JsOr(Prop(entry, "quarter_end"),
             JsOr(Prop(entry, "quarter_end_date"), JsOr(Prop(entry, "date"), JNull))),
        [k \in {"revenue_yoy_pct", "revenue_qoq_pct"} |->
            safeNum(Coalesce(Prop(entry, k),
                             Prop(entry, IF k = "revenue_yoy_pct" THEN "yoy_growth"
                                         ELSE "qoq_growth")))],
        [k \in {"revenue", "ebitda"} |-> toMillions(Prop(entry, k))])

historyOf(hist) ==
    IF hist.t # "arr" THEN <<>>
    ELSE [i \in DOMAIN hist.a |-> normalizeQuarter(hist.a[i])]

extractQuarterlyHistory(q) == historyOf(Prop(q, "quarterly_history"))

\* One entry of qualitative.risk_factors: a string or an object.
riskOf(r) ==
    IF r.t = "text"
    THEN [category |-> JText("General"), description |-> r, severity |-> JText("Medium")]
    ELSE [category |-> JsOr(Prop(r, "category"), JText("General")),
          description |-> JsOr(Prop(r, "description"), JText("[object Object]")),
          severity |-> JsOr(Prop(r, "severity"), JText("Medium"))]

\* One entry of risks_and_concerns or red_flags, through String(r).
riskOfString(r, category) ==
    [category |-> JText(category),
     description |-> IF r.t = "text" THEN r ELSE JText("[object Object]"),
     severity |-> JText("Medium")]

extractRiskFactorsOf(rf, rac, flags) ==
    IF rf.t = "arr" THEN [i \in DOMAIN rf.a |-> riskOf(rf.a[i])]
    ELSE IF rac.t = "arr" THEN [i \in DOMAIN rac.a |-> riskOfString(rac.a[i], "General")]
    ELSE IF flags.t = "arr"
        THEN [i \in DOMAIN flags.a |-> riskOfString(flags.a[i], "Warning")]
    ELSE <<>>

extractRiskFactors(qual) ==
    extractRiskFactorsOf(dig(qual, <<<<"risk_factors">>>>),
                         dig(qual, <<<<"risks_and_concerns">>>>),
                         dig(qual, <<<<"recent_developments", "red_flags">>>>))

\* /profitable/i.test(String(v)) on the status texts in use.
MentionsProfitable(v) ==
    v.t = "text" /\ v.s \in {"Profitable since 2024", "Not yet profitable"}

profitableStatusOf(ptp, fh) ==
    IF ptp.t = "obj" /\ "currently_profitable" \in DOMAIN ptp.f
        THEN JBool(JsTruthy(ptp.f["currently_profitable"]))
    ELSE IF ptp.t = "obj" /\ MentionsProfitable(Prop(ptp, "current_status"))
        THEN JBool(TRUE)
    ELSE IF MentionsProfitable(fh) THEN JBool(TRUE)
    ELSE JNull

extractProfitableStatus(qual) ==
    profitableStatusOf(dig(qual, <<<<"path_to_profitability">>>>),
                       dig(qual, <<<<"financial_health", "profitability">>>>))

\* ev.rule_statuses when it is an object (its property values are the status
\* strings themselves), else null.
ruleStatusesOf(ev) ==
    IF Prop(ev, "rule_statuses").t = "obj" THEN Some(Prop(ev, "rule_statuses").f) ELSE Null

\* A record whose summary is never computed from its rules.
normalizedSaulSummaryAbsent(saulRules) == Null

\* The summary normalizeCompany stores next to saulRules.
normalizedSaulSummary(saulRules) ==
    IF ~IsNull(saulRules) /\ DOMAIN saulRules[1] # {}
    THEN computeSaulSummary(saulRules) ELSE Null

\* raw.quantitative of null, or a null history entry, is a TypeError.
hasNullEntry(hist) == hist.t = "arr" /\ \E i \in DOMAIN hist.a : hist.a[i].t = "null"

normalizeThrows(raw) ==
    \/ raw.t = "null"
    \/ hasNullEntry(Prop(JsOr(Prop(raw, "quantitative"), EmptyObj), "quarterly_history"))

\* The raw value each numeric field of the record is read from.
rawNumber(q, ev, field) ==
    CASE field = "trailingPe" ->
            dig(q, <<<<"trailing_pe">>, <<"price_and_valuation", "trailing_pe">>>>)
      [] field = "runRatePe" ->
            dig(q, <<<<"run_rate_pe">>, <<"price_and_valuation", "run_rate_pe">>>>)
      [] field = "forwardPe" ->
            dig(q, <<<<"forward_pe">>, <<"price_and_valuation", "forward_pe">>>>)
      [] field = "priceToSales" ->
            dig(q, <<<<"price_to_sales_ratio">>, <<"price_to_sales">>,
                     <<"price_to_sales_ttm">>,
                     <<"price_and_valuation", "price_to_sales_ratio">>>>)
      [] field = "normalizedPe" ->
            dig(q, <<<<"normalized_pe_ratio">>,
                     <<"price_and_valuation", "normalized_pe_ratio">>>>)
      [] field = "revenueYoyPct" ->
            dig(q, <<<<"revenue_yoy_pct">>, <<"revenue_yoy_growth_pct">>,
                     <<"income_statement", "revenue_yoy_pct">>,
                     <<"income_statement", "revenue_yoy_percent">>>>)
      [] field = "revenueQoqPct" ->
            dig(q, <<<<"revenue_qoq_pct">>, <<"revenue_qoq_growth_pct">>,
                     <<"income_statement", "revenue_qoq_pct">>,
                     <<"income_statement", "revenue_qoq_percent">>>>)
      [] field = "grossMarginPct" ->
            dig(q, <<<<"gross_margin_pct">>,
                     <<"income_statement", "gross_margin_pct">>,
                     <<"income_statement", "gross_margin_percent">>>>)
      [] field = "ebitdaYoyPct" ->
            dig(q, <<<<"ebitda_yoy_pct">>,
                     <<"profitability_and_ebitda", "ebitda_yoy_pct">>,
                     <<"profitability_and_ebitda", "adj_ebitda_yoy_percent">>>>)
      [] field = "ebitdaMarginPct" ->
            dig(q, <<<<"ebitda_margin_pct">>,
                     <<"profitability_and_ebitda", "ebitda_margin_pct">>,
                     <<"profitability_and_ebitda", "ebitda_margin_percent">>>>)
      [] field = "fiftyTwoWeekHigh" ->
            dig(q, <<<<"52_week_high">>, <<"price_and_valuation", "52_week_high">>>>)
      [] field = "convictionScore" -> Prop(ev, "conviction_score")

NumberFields ==
    {"trailingPe", "runRatePe", "forwardPe", "priceToSales", "normalizedPe",
     "revenueYoyPct", "revenueQoqPct", "grossMarginPct", "ebitdaYoyPct",
     "ebitdaMarginPct", "fiftyTwoWeekHigh", "convictionScore"}

\* The returned record; num[field] is safeNum of the field's raw value.
normalizedRecord(raw, q, ev, num, saulRules, strengths, concerns) ==
    [ticker |-> JsOr(Prop(raw, "ticker"), JText("UNKNOWN")),
     price |-> extractPrice(q, raw),
     marketCapMil |-> extractMarketCap(q, raw),
     trailingPe |-> num["trailingPe"],
     runRatePe |-> num["runRatePe"],
     forwardPe |-> num["forwardPe"],
     priceToSales |-> num["priceToSales"],
     normalizedPe |-> num["normalizedPe"],
     revenueRecentMil |-> extractRevenue(q),
     revenueRecentLabel |->
         JsOr(dig(q, <<<<"revenue_recent_quarter_period">>,
                       <<"income_statement", "revenue_recent_quarter_period">>,
                       <<"income_statement", "revenue_recent_quarter_label">>>>),
              JText("")),
     revenueYoyPct |-> num["revenueYoyPct"],
     revenueQoqPct |-> num["revenueQoqPct"],
     grossMarginPct |-> num["grossMarginPct"],
     ebitdaMil |-> toMillions(dig(q, <<<<"ebitda_recent">>,
                                        <<"profitability_and_ebitda", "ebitda_recent">>,
                                        <<"profitability_and_ebitda", "adj_ebitda_recent">>>>)),
     ebitdaYoyPct |-> num["ebitdaYoyPct"],
     ebitdaMarginPct |-> num["ebitdaMarginPct"],
     fiftyTwoWeekHigh |-> num["fiftyTwoWeekHigh"],
     peCompression |-> extractPeCompression(q),
     quarterlyHistory |-> extractQuarterlyHistory(q),
     verdict |-> JsOr(Prop(ev, "verdict"), JNull),
     convictionScore |-> OrNull(num["convictionScore"]),
     confidenceLevel |-> JsOr(Prop(ev, "confidence_level"), JNull),
     keyStrengths |-> strengths,
     keyConcerns |-> concerns,
     bullCase |-> strengths,
     bearCase |-> concerns,
     saulRules |-> saulRules,
     saulSummary |-> normalizedSaulSummary(saulRules),
     riskFactors |-> extractRiskFactors(JsOr(Prop(raw, "qualitative"), EmptyObj)),
     currentlyProfitable |->
         extractProfitableStatus(JsOr(Prop(raw, "qualitative"), EmptyObj)),
     markdownOnly |-> FALSE]

normalizeCompanyOf(raw, q, ev) ==
    normalizedRecord(raw, q, ev,
                     [field \in NumberFields |-> safeNum(rawNumber(q, ev, field))],
                     ruleStatusesOf(ev),
                     ArrayOrEmpty(Prop(ev, "key_strengths")),
                     ArrayOrEmpty(Prop(ev, "key_concerns")))

normalizeCompany(raw) ==
    normalizeCompanyOf(raw, JsOr(Prop(raw, "quantitative"), EmptyObj),
                       JsOr(Prop(raw, "evaluation"), EmptyObj))

\* ------------------------------------------------------------------------
\* markdownParser.js: parseMarkdown
\*
\* A Markdown report is given by what the extraction patterns capture in
\* it: a number is null when its pattern does not match, rules is the rule
\* map extractSaulRules builds, quarterLines are the matching lines of the
\* "Quarterly Revenue History" section.  The empty text has empty = TRUE.
\* ------------------------------------------------------------------------

\* round2(a - b) when both are truthy, else null (the key is not set).
mdPeDelta(a, b) ==
    IF Truthy(a) /\ Truthy(b) THEN Some(round2(DecSub(a[1], b[1]))) ELSE Null

\* extractPeValues: null when no pattern matched.
mdExtractPeValues(md) ==
    IF /\ IsNull(md.trailingPe) /\ IsNull(md.runRatePe) /\ IsNull(md.forwardPe)
       /\ IsNull(md.normalizedPe) /\ IsNull(md.priceToSales)
    THEN Null
    ELSE Some([trailingPe |-> md.trailingPe,
               runRatePe |-> md.runRatePe,
               forwardPe |-> md.forwardPe,
               normalizedPe |-> md.normalizedPe,
               priceToSales |-> md.priceToSales,
               trailingToRunRate |-> mdPeDelta(md.trailingPe, md.runRatePe),
               runRateToForward |-> mdPeDelta(md.runRatePe, md.forwardPe)])

\* One "- Qn yyyy: $rev<suffix> (..% YoY, ..% QoQ)" line.
\* The revenue in millions: a figure without suffix above 100,000 is taken
\* for raw dollars.
mdRevenueMil(suffix, scaled) ==
    IF suffix = "" /\ DecGt0(scaled) /\ DecAbsGtPow10(scaled, 5)
    THEN DecShift(scaled, -6) ELSE scaled

mdQuarterEntry(line) ==
    [quarter |-> QLabel(line.q, line.y, FALSE),
     calendarQuarter |-> JNull,
     quarterEnd |-> JNull,
     revenueMil |-> Some(mdRevenueMil(line.suffix,
                        IF line.suffix = "B" THEN DecShift(line.rev, 3)
                        ELSE IF line.suffix = "K" THEN DecShift(line.rev, -3)
                        ELSE line.rev)),
     revenueYoyPct |-> line.yoy,
     revenueQoqPct |-> line.qoq,
     ebitdaMil |-> Null]

mdExtractQuarterlyHistory(md) ==
    [i \in DOMAIN md.quarterLines |-> mdQuarterEntry(md.quarterLines[i])]

parseMarkdown(md) ==
    IF md.empty THEN Null
    ELSE Some([date |-> md.date,
              price |-> md.price,
              verdict |-> md.verdict,
              convictionScore |-> md.convictionScore,
              financials |-> [revenueYoyPct |-> md.revenueYoyPct,
                              revenueQoqPct |-> md.revenueQoqPct,
                              grossMarginPct |-> md.grossMarginPct,
                              ebitdaMarginPct |-> md.ebitdaMarginPct],
              peValues |-> mdExtractPeValues(md),
              saulRules |-> Some(md.rules),
              saulSummary |-> computeSaulSummary(Some(md.rules)),
              bullCase |-> md.bullCase,
              bearCase |-> md.bearCase,
              quarterlyHistory |-> mdExtractQuarterlyHistory(md)])

\* ------------------------------------------------------------------------
\* dataLoader.js: one company directory
\*
\* A directory is [listable, metrics, companyData, md].  listable is FALSE
\* when readdirSync on it throws.  metrics and companyData are the files
\* <ticker>_dashboard_metrics.json and <ticker>_company_data.json: absent,
\* "bad" (unreadable or not JSON) or a parsed document.  md is the newest
\* <TICKER>_*.md file: absent, "bad" (unreadable) or its text.
\* ------------------------------------------------------------------------

FileAbsent == [k |-> "absent"]

FileBad == [k |-> "bad"]

FileDoc(doc) == [k |-> "doc", doc |-> doc]

MdText(text) == [k |-> "text", text |-> text]

\* String.prototype.toUpperCase on the ticker and directory names in use.
tickerToUpperCase(s) ==
    CASE s \in {"aaa", "Aaa", "AAA"} -> "AAA"
      [] s \in {"bbb", "Bbb", "BBB"} -> "BBB"
      [] OTHER -> s

\* Which JSON file findJsonFile returns; the listing itself may throw.
findJsonFile(dir) ==
    IF dir.metrics.k # "absent" THEN "metrics"
    ELSE IF dir.companyData.k # "absent" THEN "companyData"
    ELSE "none"

IsFiscalLabel(quarter) == quarter.t = "qlabel" /\ quarter.fy

\* endDateMap of backfillQuarterEndDates: the quarter_end of the last entry
\* of cdHist carrying the label, or JNull.
endDateOf(cdHist, label) ==
    LET endOf(e) == JsOr(Prop(e, "quarter_end"), Prop(e, "quarter_end_date"))
        hits == {i \in DOMAIN cdHist :
                    /\ JsTruthy(Prop(cdHist[i], "quarter"))
                    /\ Prop(cdHist[i], "quarter") = label
                    /\ JsTruthy(endOf(cdHist[i]))}
    IN  IF hits = {} THEN JNull
        ELSE endOf(cdHist[CHOOSE i \in hits : \A j \in hits : j <= i])

\* One entry of the record's history, given the end date endDateMap holds
\* for its quarter label.
backfilledQuarter(q, endDate) ==
    IF ~JsTruthy(q.calendarQuarter) /\ JsTruthy(endDate)
    THEN [q EXCEPT !.quarterEnd = endDate,
                   !.calendarQuarter = dateToCalendarQuarter(endDate)]
    ELSE q

\* cdHist is quantitative.quarterly_history of the company-data document.
backfillFrom(normalized, hist, cdHist) ==
    IF cdHist.t # "arr" \/ \E i \in DOMAIN cdHist.a : cdHist.a[i].t = "null"
    THEN normalized
    ELSE [normalized EXCEPT !.quarterlyHistory =
            [i \in DOMAIN hist |->
                backfilledQuarter(hist[i], endDateOf(cdHist.a, hist[i].quarter))]]

backfillHistory(normalized, hist, cd, primary) ==
    IF \/ hist = <<>>
       \/ \E i \in DOMAIN hist : JsTruthy(hist[i].calendarQuarter)
       \/ ~\E i \in DOMAIN hist : IsFiscalLabel(hist[i].quarter)
       \/ primary = "companyData"
       \/ cd.k # "doc"
    THEN normalized
    ELSE backfillFrom(normalized, hist,
                      Prop(Prop(cd.doc, "quantitative"), "quarterly_history"))

backfillQuarterEndDates(normalized, dir, primary) ==
    backfillHistory(normalized, normalized.quarterlyHistory, dir.companyData, primary)

\* a, unless a is falsy and b truthy (nullable numbers; raw values).
FillNum(a, b) == IF ~Truthy(a) /\ Truthy(b) THEN b ELSE a

FillRaw(a, b) == IF ~JsTruthy(a) /\ JsTruthy(b) THEN b ELSE a

FillSeq(a, b) == IF a = <<>> /\ b # <<>> THEN b ELSE a

\* The single-entry history built from the current-quarter figures.
synthesizedHistory(norm) ==
    <<[quarter |-> JsOr(norm.revenueRecentLabel, JText("Latest")),
       calendarQuarter |-> JNull,
       quarterEnd |-> JNull,
       revenueMil |-> norm.revenueRecentMil,
       revenueYoyPct |-> norm.revenueYoyPct,
       revenueQoqPct |-> norm.revenueQoqPct,
       ebitdaMil |-> Null]>>

\* The history after the merge: hist is the record's history filled from
\* the analysis.
mergedHistory(norm, hist) ==
    IF hist = <<>> /\ ~IsNull(norm.revenueYoyPct) THEN synthesizedHistory(norm) ELSE hist

\* The rules are taken from the analysis when the record has none.
takesRules(norm, analysis) ==
    (IsNull(norm.saulRules) \/ DOMAIN norm.saulRules[1] = {}) /\ ~IsNull(analysis.saulRules)

\* summary is the record's summary after the rules were merged.
mergedSummaryOf(analysis, summary) ==
    IF IsNull(summary) /\ ~IsNull(analysis.saulSummary) THEN analysis.saulSummary
    ELSE summary

mergedSummary(norm, analysis) ==
    mergedSummaryOf(analysis,
        IF takesRules(norm, analysis) /\ DOMAIN analysis.saulRules[1] # {}
        THEN computeSaulSummary(analysis.saulRules) ELSE norm.saulSummary)

\* a filled from analysis.peValues[key] when peValues is there.
FillPe(a, pe, key) == IF ~IsNull(pe) THEN FillNum(a, pe[1][key]) ELSE a

mergeMarkdownIntoNormalized(norm, analysis) ==
    [norm EXCEPT
        !.verdict = FillRaw(norm.verdict, analysis.verdict),
        !.convictionScore = FillNum(norm.convictionScore, analysis.convictionScore),
        !.trailingPe = FillPe(@, analysis.peValues, "trailingPe"),
        !.runRatePe = FillPe(@, analysis.peValues, "runRatePe"),
        !.forwardPe = FillPe(@, analysis.peValues, "forwardPe"),
        !.normalizedPe = FillPe(@, analysis.peValues, "normalizedPe"),
        !.priceToSales = FillPe(@, analysis.peValues, "priceToSales"),
        !.ebitdaMarginPct = FillNum(@, analysis.financials.ebitdaMarginPct),
        !.grossMarginPct = FillNum(@, analysis.financials.grossMarginPct),
        !.quarterlyHistory =
            mergedHistory(norm, FillSeq(norm.quarterlyHistory, analysis.quarterlyHistory)),
        !.saulRules = IF takesRules(norm, analysis) THEN analysis.saulRules
                      ELSE norm.saulRules,
        !.saulSummary = mergedSummary(norm, analysis),
        !.bullCase = FillSeq(@, analysis.bullCase),
        !.bearCase = FillSeq(@, analysis.bearCase)]

\* analysis.peValues?.key || null.
PeValueOrNull(pe, key) == IF IsNull(pe) THEN Null ELSE OrNull(pe[1][key])

\* The record of buildFromMarkdownOnly, ticker being its ticker field.
markdownOnlyRecord(analysis, ticker) ==
    [ticker |-> ticker,
     price |-> analysis.price,
     marketCapMil |-> Null,
     trailingPe |-> PeValueOrNull(analysis.peValues, "trailingPe"),
     runRatePe |-> PeValueOrNull(analysis.peValues, "runRatePe"),
     forwardPe |-> PeValueOrNull(analysis.peValues, "forwardPe"),
     priceToSales |-> PeValueOrNull(analysis.peValues, "priceToSales"),
     normalizedPe |-> PeValueOrNull(analysis.peValues, "normalizedPe"),
     revenueRecentMil |-> Null,
     revenueRecentLabel |-> JNull,
     revenueYoyPct |-> OrNull(analysis.financials.revenueYoyPct),
     revenueQoqPct |-> OrNull(analysis.financials.revenueQoqPct),
     grossMarginPct |-> OrNull(analysis.financials.grossMarginPct),
     ebitdaMil |-> Null,
     ebitdaYoyPct |-> Null,
     ebitdaMarginPct |-> OrNull(analysis.financials.ebitdaMarginPct),
     fiftyTwoWeekHigh |-> Null,
     peCompression |-> Null,
     quarterlyHistory |-> analysis.quarterlyHistory,
     verdict |-> analysis.verdict,
     convictionScore |-> analysis.convictionScore,
     confidenceLevel |-> JNull,
     keyStrengths |-> <<>>,
     keyConcerns |-> <<>>,
     bullCase |-> analysis.bullCase,
     bearCase |-> analysis.bearCase,
     saulRules |-> analysis.saulRules,
     saulSummary |-> analysis.saulSummary,
     riskFactors |-> <<>>,
     currentlyProfitable |-> JNull,
     markdownOnly |-> TRUE]

\* A markdown-only record that takes the ticker as it was passed.
buildFromMarkdownOnlyTickerAsGiven(analysis, ticker) ==
    markdownOnlyRecord(analysis, JText(ticker))

buildFromMarkdownOnly(analysis, ticker) ==
    markdownOnlyRecord(analysis, JText(tickerToUpperCase(ticker)))

\* The JSON file loadCompany reads, whether reading, parsing and normalizing
\* it succeeds, and the record this gives (normalized, then backfilled).
primaryJsonFile(dir) ==
    IF findJsonFile(dir) = "metrics" THEN dir.metrics ELSE dir.companyData

jsonLoads(dir) ==
    /\ findJsonFile(dir) # "none"
    /\ primaryJsonFile(dir).k = "doc"
    /\ ~normalizeThrows(primaryJsonFile(dir).doc)

normalizedFromJson(dir) ==
    backfillQuarterEndDates(normalizeCompany(primaryJsonFile(dir).doc), dir,
                            findJsonFile(dir))

\* loadCompany: threw is TRUE when the exception of a directory listing
\* leaves the function; errors of reading or parsing a file are caught.
\* The analysis parsed from the Markdown report, null without a readable one.
analysisOf(dir) == IF dir.md.k = "text" THEN parseMarkdown(dir.md.text) ELSE Null

\* The record of the JSON file, null when there is none that loads.
jsonRecordOf(dir) == IF jsonLoads(dir) THEN Some(normalizedFromJson(dir)) ELSE Null

\* A combination that has no record for an entity without a JSON record.
combineSourcesJsonOnly(json, analysis, ticker) ==
    IF ~IsNull(json) /\ ~IsNull(analysis)
        THEN Some(mergeMarkdownIntoNormalized(json[1], analysis[1]))
    ELSE json

\* The record loadCompany returns for what the two sources gave.
combineSources(json, analysis, ticker) ==
    IF ~IsNull(json) /\ ~IsNull(analysis)
        THEN Some(mergeMarkdownIntoNormalized(json[1], analysis[1]))
    ELSE IF ~IsNull(json) THEN json
    ELSE IF ~IsNull(analysis) THEN Some(buildFromMarkdownOnly(analysis[1], ticker))
    ELSE Null

loadedCompany(dir, ticker, json, analysis) ==
    [threw |-> FALSE, ticker |-> tickerToUpperCase(ticker),
     normalized |-> combineSources(json, analysis, ticker),
     analysis |-> analysis,
     rawMarkdown |-> IF dir.md.k = "text" THEN Some(dir.md.text) ELSE Null]

loadCompany(dir, ticker) ==
    IF ~dir.listable
    THEN [threw |-> TRUE, ticker |-> tickerToUpperCase(ticker),
          normalized |-> Null, analysis |-> Null, rawMarkdown |-> Null]
    ELSE loadedCompany(dir, ticker, jsonRecordOf(dir), analysisOf(dir))

\* ------------------------------------------------------------------------
\* calculator.js: derived metrics
\*
\* Intermediate quotients are exact fractions [n, d] with d > 0.
\* ------------------------------------------------------------------------

RECURSIVE GCD(_, _)
GCD(a, b) == IF b = 0 THEN a ELSE GCD(b, a % b)

\* The fraction n / d (d # 0) in lowest terms with a positive denominator.
Frac(n, d) ==
    LET g == GCD(Abs(n), Abs(d))
        s == IF d < 0 THEN -1 ELSE 1
    IN  [n |-> s * (n \div g), d |-> s * (d \div g)]

FracOf(dec) == Frac(FracN(dec), FracD(dec))

FMul(a, b) == Frac(a.n * b.n, a.d * b.d)

FDiv(a, b) == Frac(a.n * b.d, a.d * b.n)

FSub(a, b) == Frac(a.n * b.d - b.n * a.d, a.d * b.d)

FAdd(a, b) == Frac(a.n * b.d + b.n * a.d, a.d * b.d)

\* Math.round(f * 100) / 100.
FRound2(f) == Round2Frac(f.n, f.d)

Hundred == Frac(100, 1)

\* ((a - b) / b) * 100 for decimals a and b, b nonzero.
PctChange(a, b) == FMul(FDiv(FSub(FracOf(a), FracOf(b)), FracOf(b)), Hundred)

\* Has the entry a QoQ figure, or revenue for it and its predecessor?
qoqKnown(hist, i) ==
    ~IsNull(hist[i].revenueQoqPct)
    \/ (Truthy(hist[i].revenueMil) /\ Truthy(hist[i + 1].revenueMil))

qoqOf(hist, i) ==
    IF ~IsNull(hist[i].revenueQoqPct) THEN FracOf(hist[i].revenueQoqPct[1])
    ELSE PctChange(hist[i].revenueMil[1], hist[i + 1].revenueMil[1])

momentumOf(currentQoq, priorQoq, delta) ==
    Some([currentQoq |-> FRound2(currentQoq),
          priorQoq |-> FRound2(priorQoq),
          delta |-> FRound2(delta),
          trend |-> IF delta.n > 2 * delta.d THEN "accelerating"
                    ELSE IF delta.n < -2 * delta.d THEN "decelerating"
                    ELSE "stable"])

momentumOfQoq(currentQoq, priorQoq) ==
    momentumOf(currentQoq, priorQoq, FSub(currentQoq, priorQoq))

momentumOfHistory(hist) ==
    IF Len(hist) < 3 THEN Null
    ELSE IF ~qoqKnown(hist, 1) \/ ~qoqKnown(hist, 2) THEN Null
    ELSE momentumOfQoq(qoqOf(hist, 1), qoqOf(hist, 2))

sequentialMomentum(company) == momentumOfHistory(company.quarterlyHistory)

\* a || b || c of nullable numbers.
FirstTruthy(a, b, c) == IF Truthy(a) THEN a ELSE IF Truthy(b) THEN b ELSE c

gavOf(pe, growth) ==
    IF ~Truthy(pe) \/ ~Truthy(growth) \/ ~DecGt0(growth[1]) THEN Null
    ELSE Some(DecDivRound2(pe[1], growth[1]))

growthAdjustedValuation(company) ==
    gavOf(FirstTruthy(company.runRatePe, company.trailingPe, company.normalizedPe),
          company.revenueYoyPct)

\* 1 + p / 100
onePlusPct(p) == FAdd(Frac(1, 1), FDiv(FracOf(p), Hundred))

\* current - current / (1 + yoy / 100): the change since the year before.
deltaSincePrior(current, yoy) ==
    FSub(FracOf(current), FDiv(FracOf(current), onePlusPct(yoy)))

leverageOfDeltas(ebitdaDelta, revenueDelta) ==
    IF revenueDelta.n = 0 THEN Null
    ELSE Some(FRound2(FDiv(ebitdaDelta, revenueDelta)))

\* With revenueYoY = -100 the prior revenue is a division by zero: the result
\* is 0 (a finite delta over an infinite one), or NaN when a NaN is involved.
leverageOf(E, R, ey, ry) ==
    IF IsNull(E) \/ IsNull(R) \/ IsNull(ey) \/ IsNull(ry) THEN Null
    ELSE IF ry[1].m = 0 \/ ey[1] = Dec(-100, 0) THEN Null
    ELSE IF ry[1] = Dec(-100, 0)
         THEN (IF R[1].m = 0 THEN Some(NaN) ELSE Some(Dec(0, 0)))
    ELSE leverageOfDeltas(deltaSincePrior(E[1], ey[1]), deltaSincePrior(R[1], ry[1]))

operatingLeverage(company) ==
    leverageOf(company.ebitdaMil, company.revenueRecentMil,
               company.ebitdaYoyPct, company.revenueYoyPct)

\* round(((price - high) / high) * 10000) / 100.
distanceFrom52WeekHigh(company) ==
    IF ~Truthy(company.price) \/ ~Truthy(company.fiftyTwoWeekHigh) THEN Null
    ELSE Some(FRound2(PctChange(company.price[1], company.fiftyTwoWeekHigh[1])))

\* round2(a - b) when both are there, else null.
PeDeltaRound2(a, b) ==
    IF ~IsNull(a) /\ ~IsNull(b) THEN Some(round2(DecSub(a[1], b[1]))) ELSE Null

\* The compression block of three P/E values (no interpretation).
peCompressionOf(t, r, f) ==
    [trailingPe |-> t,
     runRatePe |-> r,
     forwardPe |-> f,
     trailingToRunRate |-> PeDeltaRound2(t, r),
     runRateToForward |-> PeDeltaRound2(r, f),
     totalCompression |-> PeDeltaRound2(t, f),
     interpretation |-> JNull]

peCompression(company) ==
    IF ~IsNull(company.peCompression) THEN company.peCompression
    ELSE IF IsNull(company.trailingPe) /\ IsNull(company.runRatePe)
            /\ IsNull(company.forwardPe) THEN Null
    ELSE Some(peCompressionOf(company.trailingPe, company.runRatePe, company.forwardPe))

computeAllMetrics(company) ==
    [ticker |-> company.ticker,
     momentum |-> sequentialMomentum(company),
     gav |-> growthAdjustedValuation(company),
     operatingLeverage |-> operatingLeverage(company),
     distanceFromHigh |-> distanceFrom52WeekHigh(company),
     peCompression |-> peCompression(company)]

\* { ...company, calculated: computeAllMetrics(company) }
enrichCompany(company) == [calculated |-> computeAllMetrics(company)] @@ company

enrichCompanies(companies) == [i \in DOMAIN companies |-> enrichCompany(companies[i])]

\* ------------------------------------------------------------------------
\* index.js: the live-price overlay
\*
\* overlayLivePrice gives the returned record (result) and the argument
\* object as the call leaves it (company): the function builds its result
\* and the calculated block as fresh copies and writes only to those.
\* ------------------------------------------------------------------------

\* company[key] * livePrice / reportPrice, rounded to two decimals.
scaleByPrice(x, livePrice, reportPrice) ==
    FRound2(FDiv(FMul(FracOf(x), FracOf(livePrice)), FracOf(reportPrice)))

\* company[key] ? round2(company[key] * ratio) : null
ScaledOrNull(x, livePrice, reportPrice) ==
    IF Truthy(x) THEN Some(scaleByPrice(x[1], livePrice, reportPrice)) ELSE Null

\* if (company[key] && reportPrice) c[key] = round2(livePrice / eps)
RederivedPe(x, livePrice, reportPrice) ==
    IF Truthy(x) THEN Some(scaleByPrice(x[1], livePrice, reportPrice)) ELSE x

\* The copy c with price, market cap, price to sales and the P/E variants
\* recomputed.
overlaidFields(company, livePrice, reportPrice) ==
    [priceSource |-> "live"] @@
    [company EXCEPT
        !.price = Some(livePrice),
        !.marketCapMil = ScaledOrNull(@, livePrice, reportPrice),
        !.priceToSales = ScaledOrNull(@, livePrice, reportPrice),
        !.trailingPe = RederivedPe(@, livePrice, reportPrice),
        !.runRatePe = RederivedPe(@, livePrice, reportPrice),
        !.forwardPe = RederivedPe(@, livePrice, reportPrice),
        !.normalizedPe = RederivedPe(@, livePrice, reportPrice)]

\* The copy of the calculated block, pe being c.runRatePe || c.trailingPe
\* || c.normalizedPe.
overlaidCalculated(company, livePrice, c, pe) ==
    [company.calculated EXCEPT
        !.distanceFromHigh =
            IF Truthy(company.fiftyTwoWeekHigh)
            THEN Some(FRound2(PctChange(livePrice, company.fiftyTwoWeekHigh[1])))
            ELSE @,
        !.gav =
            IF Truthy(pe) /\ Truthy(company.revenueYoyPct)
               /\ DecGt0(company.revenueYoyPct[1])
            THEN Some(DecDivRound2(pe[1], company.revenueYoyPct[1]))
            ELSE @,
        !.peCompression =
            IF ~IsNull(c.trailingPe) \/ ~IsNull(c.runRatePe) \/ ~IsNull(c.forwardPe)
            THEN Some(peCompressionOf(c.trailingPe, c.runRatePe, c.forwardPe))
            ELSE @]

overlaidWith(company, livePrice, c) ==
    [c EXCEPT !.calculated =
        overlaidCalculated(company, livePrice, c,
                           FirstTruthy(c.runRatePe, c.trailingPe, c.normalizedPe))]

overlaidRecord(company, livePrice) ==
    IF ~Truthy(company.price) \/ ~DecGt0(company.price[1])
    THEN [priceSource |-> "live"] @@ [company EXCEPT !.price = Some(livePrice)]
    ELSE overlaidWith(company, livePrice,
                      overlaidFields(company, livePrice, company.price[1]))

\* An overlay that assigns the new values onto the cached object itself.
overlayLivePriceInPlace(company, livePrice) ==
    [k \in {"result", "company"} |-> overlaidRecord(company, livePrice)]

overlayLivePrice(company, livePrice) ==
    [result |-> overlaidRecord(company, livePrice),
     company |-> company]

\* priceMap[company.ticker]: priceMap is a function from ticker strings to
\* the truthy live prices of buildLivePriceMap.
livePriceOf(priceMap, ticker) ==
    IF ticker.t = "text" /\ ticker.s \in DOMAIN priceMap
    THEN Some(priceMap[ticker.s]) ELSE Null

\* The overlay of one element of the array: result and element afterwards.
overlayWithPrice(company, livePrice) ==
    IF ~IsNull(livePrice) THEN overlayLivePrice(company, livePrice[1])
    ELSE [result |-> [priceSource |-> "report"] @@ company,
          company |-> company]

overlayOne(company, priceMap) ==
    overlayWithPrice(company, livePriceOf(priceMap, company.ticker))

\* The mapped array (result) and the argument array as the call leaves it
\* (companies), from the overlay of each element.
overlaidArrays(overlaid) ==
    [result |-> [i \in DOMAIN overlaid |-> overlaid[i].result],
     companies |-> [i \in DOMAIN overlaid |-> overlaid[i].company]]

overlayLivePrices(companies, priceMap) ==
    overlaidArrays([i \in DOMAIN companies |-> overlayOne(companies[i], priceMap)])

\* ------------------------------------------------------------------------
\* One company directory taken through load, enrichment and overlay
\* ------------------------------------------------------------------------

N(m) == JNum(Dec(m, 0))

D(m) == Some(Dec(m, 0))

\* A dashboard-metrics document of the flat schema family.
FlatDoc(ticker, q, ev) ==
    JObj([ticker |-> ticker, quantitative |-> JObj(q), evaluation |-> JObj(ev)])

QBase ==
    ("52_week_high" :> JNull) @@
    [price |-> N(100), market_cap |-> JStr(<<"$", "3", ".", "4", "B">>),
     trailing_pe |-> JNull, run_rate_pe |-> JNull, forward_pe |-> JNull,
     normalized_pe_ratio |-> JNull, price_to_sales_ratio |-> N(5),
     revenue_recent_quarterly |-> JNull, revenue_recent_quarter_period |-> JNull,
     revenue_yoy_pct |-> JNull, revenue_qoq_pct |-> JNull,
     gross_margin_pct |-> JNull, ebitda_margin_pct |-> JNull,
     ebitda_recent |-> JNull, ebitda_yoy_pct |-> JNull,
     pe_compression_analysis |-> JNull, quarterly_history |-> JNull]

EvBase ==
    [verdict |-> JNull, conviction_score |-> JNull, confidence_level |-> JNull,
     key_strengths |-> JNull, key_concerns |-> JNull, rule_statuses |-> JNull]

MdBase ==
    [empty |-> FALSE, date |-> JText("2025-11-01"), price |-> D(95),
     verdict |-> JNull, convictionScore |-> Null,
     revenueYoyPct |-> Null, revenueQoqPct |-> Null,
     grossMarginPct |-> Null, ebitdaMarginPct |-> Null,
     trailingPe |-> Null, runRatePe |-> Null, forwardPe |-> Null,
     normalizedPe |-> Null, priceToSales |-> Null,
     rules |-> <<>>, bullCase |-> <<>>, bearCase |-> <<>>, quarterLines |-> <<>>]

MdEmpty == [empty |-> TRUE]

Dir(metrics, companyData, md) ==
    [listable |-> TRUE, metrics |-> metrics, companyData |-> companyData, md |-> md]

Precomputed ==
    JObj([trailing_pe |-> N(30), run_rate_pe |-> N(20), forward_pe |-> N(10),
          trailing_to_run_rate_compression |-> N(10),
          run_rate_to_forward_compression |-> N(10),
          total_compression |-> N(20),
          interpretation |-> JText("Earnings accelerating")])

\* Documents varying the price and valuation figures.
ValuationDocs ==
    {FlatDoc(JText("AAA"),
             ("52_week_high" :> high) @@
             [QBase EXCEPT !.price = price, !.trailing_pe = t, !.run_rate_pe = rf[1],
                           !.forward_pe = rf[2], !.revenue_yoy_pct = yoy,
                           !.pe_compression_analysis = pca],
             EvBase) :
        price \in {JNull, N(0), N(100)}, t \in {JNull, N(0), N(30)},
        rf \in {<<JNull, JNull>>, <<N(20), JNull>>, <<N(20), N(10)>>},
        high \in {JNull, N(125)}, yoy \in {JNull, N(50)}, pca \in {JNull, Precomputed}}

ValuationMds ==
    {[MdBase EXCEPT !.trailingPe = t, !.runRatePe = rf[1], !.forwardPe = rf[2],
                    !.revenueYoyPct = rf[3]] :
        t \in {Null, D(40)}, rf \in {<<Null, Null, Null>>, <<D(25), D(15), D(60)>>}}

Rules12 == ("R_001" :> "PASS") @@ ("R_002" :> "PASS")

RulesFail == ("R_001" :> "FAIL") @@ ("R_004" :> "PASS") @@ ("R_018" :> "WARNING")

RulesUnknown == ("R_999" :> "PASS")

RulesMd == ("R_001" :> "CAUTION") @@ ("R_010" :> "PASS")

\* Documents varying the evaluation block and the margins.
EvaluationDocs ==
    {FlatDoc(JText("AAA"),
             [QBase EXCEPT !.gross_margin_pct = gm[1], !.ebitda_margin_pct = gm[2]],
             [EvBase EXCEPT !.verdict = v[1], !.conviction_score = v[2],
                            !.rule_statuses = rs, !.key_strengths = ks,
                            !.key_concerns = ks]) :
        gm \in {<<JNull, JNull>>, <<N(0), N(0)>>, <<N(60), JNull>>},
        v \in {<<JNull, JNull>>, <<JText("PASS"), N(0)>>, <<JText("PASS"), N(8)>>},
        rs \in {JNull, EmptyObj, JObj(Rules12), JObj(RulesFail), JObj(RulesUnknown),
                JText("n/a")},
        ks \in {JNull, JArr(<<>>), JArr(<<JText("moat")>>)}}

EvaluationMds ==
    {[MdBase EXCEPT !.verdict = vc[1], !.convictionScore = vc[2],
                    !.grossMarginPct = m[1], !.ebitdaMarginPct = m[2],
                    !.rules = rules, !.bullCase = b, !.bearCase = b] :
        vc \in {<<JNull, Null>>, <<JText("CAUTION"), D(6)>>},
        m \in {<<Null, Null>>, <<D(70), D(25)>>},
        rules \in {<<>>, RulesMd},
        b \in {<<JText("md thesis")>>}}

HistEntry(quarter, quarterEnd, revenue, qoq) ==
    JObj([quarter |-> quarter, quarter_end |-> quarterEnd, revenue |-> revenue,
          revenue_yoy_pct |-> N(40), revenue_qoq_pct |-> qoq])

HistCalendar ==
    JArr(<<HistEntry(JNull, JDate(2025, 9, 30), N(120), N(20)),
           HistEntry(JNull, JDate(2025, 6, 30), N(100), N(25)),
           HistEntry(JNull, JDate(2025, 3, 31), N(80), JNull)>>)

HistFiscal ==
    JArr(<<HistEntry(QLabel(3, 2026, TRUE), JNull, N(120), JNull),
           HistEntry(QLabel(2, 2026, TRUE), JNull, N(100), JNull),
           HistEntry(QLabel(1, 2026, TRUE), JNull, N(80), JNull)>>)

HistNullEntry == JArr(<<JNull>>)

\* The calendar quarters in chronological order, the oldest first.
HistOldestFirst ==
    JArr(<<HistEntry(JNull, JDate(2025, 3, 31), N(80), JNull),
           HistEntry(JNull, JDate(2025, 6, 30), N(100), N(25)),
           HistEntry(JNull, JDate(2025, 9, 30), N(120), N(20))>>)

\* Fiscal quarters, the first with a quarter_end that is not a yyyy-mm-dd date.
HistFiscalTextEnd ==
    JArr(<<HistEntry(QLabel(3, 2026, TRUE), JText("Oct 2025"), N(120), JNull),
           HistEntry(QLabel(2, 2026, TRUE), JNull, N(100), JNull)>>)

CompanyDataDoc ==
    JObj([ticker |-> JText("AAA"),
          quantitative |-> JObj([quarterly_history |->
              JArr(<<HistEntry(QLabel(3, 2026, TRUE), JDate(2025, 11, 1), N(120), JNull),
                     HistEntry(QLabel(2, 2026, TRUE), JDate(2025, 8, 2), N(100), JNull)>>)])])

\* Documents varying the quarterly history and the current-quarter figures.
HistoryDocs ==
    {FlatDoc(JText("AAA"),
             [QBase EXCEPT !.quarterly_history = h, !.revenue_yoy_pct = yoy,
                           !.revenue_recent_quarter_period = label,
                           !.revenue_recent_quarterly = rev,
                           !.ebitda_recent = eb[1], !.ebitda_yoy_pct = eb[2]],
             EvBase) :
        h \in {JNull, JArr(<<>>), HistCalendar, HistFiscal, HistNullEntry,
               HistFiscalTextEnd, HistOldestFirst},
        yoy \in {JNull, N(0), N(50), N(-100)},
        label \in {QLabel(3, 2025, FALSE)},
        rev \in {JNull, JStr(<<"1", "5", "0", "M">>)},
        eb \in {<<JNull, JNull>>, <<N(30), N(200)>>, <<N(30), N(-100)>>}}

MdLine(q, y, rev, suffix, yoy, qoq) ==
    [q |-> q, y |-> y, rev |-> rev, suffix |-> suffix, yoy |-> yoy, qoq |-> qoq]

HistoryMds ==
    {[MdBase EXCEPT !.quarterLines = ls] :
        ls \in {<<>>,
                <<MdLine(3, 2025, Dec(164, 0), "M", D(62), Null),
                  MdLine(2, 2025, Dec(150, 0), "M", D(63), Null),
                  MdLine(1, 2025, Dec(2, 0), "B", Null, Null)>>,
                <<MdLine(1, 2025, Dec(140, 0), "M", D(60), Null),
                  MdLine(2, 2025, Dec(150, 0), "M", D(63), D(7)),
                  MdLine(3, 2025, Dec(164, 0), "M", D(62), D(9))>>}}

\* A document of the nested schema family, one with no ticker, one that is
\* the JSON value null.
NestedDoc ==
    JObj([ticker |-> JText("AAA"),
          current_stock_price |-> N(100),
          quantitative |-> JObj(
              [price_and_valuation |-> JObj(
                  ("52_week_high" :> N(125)) @@
                  [trailing_pe |-> N(30), run_rate_pe |-> JStr(<<"2", "0">>),
                   market_cap_billions |-> N(3)]),
               income_statement |-> JObj([revenue_yoy_percent |-> N(50)])]),
          qualitative |-> JObj(
              [risk_factors |-> JArr(<<JText("customer concentration")>>),
               path_to_profitability |->
                   JObj([current_status |-> JText("Profitable since 2024")])])])

NoTickerDoc == JObj([quantitative |-> JObj(QBase)])

\* Live prices of the overlay.
LivePrices == {Dec(80, 0), Dec(100, 0), Dec(12550, -2)}

MdFiles(texts) == {FileAbsent, FileBad, MdText(MdEmpty)} \cup {MdText(t) : t \in texts}

LoadInputs ==
    {Dir(FileDoc(doc), FileAbsent, md) :
        doc \in ValuationDocs, md \in {FileAbsent} \cup {MdText(t) : t \in ValuationMds}}
    \cup {Dir(FileDoc(doc), FileAbsent, md) :
        doc \in EvaluationDocs, md \in {FileAbsent} \cup {MdText(t) : t \in EvaluationMds}}
    \cup {Dir(FileDoc(doc), cd, md) :
        doc \in HistoryDocs, cd \in {FileAbsent, FileDoc(CompanyDataDoc)},
        md \in {FileAbsent} \cup {MdText(t) : t \in HistoryMds}}
    \cup {Dir(m, cd, md) :
        m \in {FileAbsent, FileBad, FileDoc(JNull), FileDoc(NestedDoc), FileDoc(NoTickerDoc)},
        cd \in {FileAbsent, FileBad, FileDoc(CompanyDataDoc)},
        md \in MdFiles(ValuationMds \cup EvaluationMds \cup HistoryMds)}
    \cup {[Dir(FileDoc(NestedDoc), FileAbsent, MdText(MdBase)) EXCEPT !.listable = FALSE]}

InitLoad ==
    /\ fnIn \in LoadInputs
    /\ fnOut = Null
    /\ fnPc = "call"
    /\ CatalogIdle

\* loadCompany on the directory "aaa", then enrichCompanies on its record.
loadedAndEnriched(loaded) ==
    [loaded |-> loaded,
     company |-> IF IsNull(loaded.normalized) THEN Null
                 ELSE Some(enrichCompany(loaded.normalized[1])),
     livePrice |-> Null,
     overlaid |-> Null]

LoadOne ==
    /\ fnPc = "call"
    /\ fnOut' = loadedAndEnriched(loadCompany(fnIn, "aaa"))
    /\ fnPc' = "loaded"
    /\ UNCHANGED <<fnIn, catVars>>

\* overlayLivePrice on the enriched record with a live price.
OverlayOne ==
    /\ fnPc = "loaded"
    /\ ~IsNull(fnOut.company)
    /\ \E livePrice \in LivePrices :
        fnOut' = [fnOut EXCEPT
                    !.livePrice = Some(livePrice),
                    !.overlaid = Some(overlayLivePrice(fnOut.company[1], livePrice).result)]
    /\ fnPc' = "overlaid"
    /\ UNCHANGED <<fnIn, catVars>>

NextLoad == LoadOne \/ OverlayOne

SpecLoad == InitLoad /\ [][NextLoad]_vars

\* The directory was loaded from JSON and Markdown both, and merged.
MergedCase ==
    /\ fnPc = "loaded"
    /\ ~fnOut.loaded.threw
    /\ jsonLoads(fnIn)
    /\ ~IsNull(fnOut.loaded.analysis)

\* Is a JSON-normalized value there: not null, not the empty string, not an
\* empty array, not an empty rule map?
NumPresent(x) == ~IsNull(x)

RawPresent(v) == v # JNull /\ v # JText("")

SeqPresent(a) == a # <<>>

RulesPresent(x) == ~IsNull(x) /\ DOMAIN x[1] # {}

NumericMergeFields ==
    {"convictionScore", "trailingPe", "runRatePe", "forwardPe", "normalizedPe",
     "priceToSales", "grossMarginPct", "ebitdaMarginPct"}

\* C4: in a merged record every field that the JSON-normalized record holds
\* (not null, absent or empty) keeps its JSON value; a Markdown value is
\* copied only into a field the JSON left null, absent or empty.
C4_JsonWinsUnlessAbsent ==
    MergedCase =>
        LET json == normalizedFromJson(fnIn)
            merged == fnOut.loaded.normalized[1]
        IN  /\ \A f \in NumericMergeFields :
                   NumPresent(json[f]) => merged[f] = json[f]
            /\ RawPresent(json.verdict) => merged.verdict = json.verdict
            /\ SeqPresent(json.quarterlyHistory) =>
                   merged.quarterlyHistory = json.quarterlyHistory
            /\ RulesPresent(json.saulRules) => merged.saulRules = json.saulRules
            /\ SeqPresent(json.bullCase) => merged.bullCase = json.bullCase
            /\ SeqPresent(json.bearCase) => merged.bearCase = json.bearCase

\* C5: the saulSummary of every loaded and enriched record (JSON only,
\* Markdown only or merged) is computeSaulSummary of its own saulRules, and
\* it is null exactly when saulRules is null or empty.
C5_SummaryOfOwnRules ==
    (fnPc \in {"loaded", "overlaid"} /\ ~IsNull(fnOut.company)) =>
        LET c == fnOut.company[1]
        IN  /\ c.saulSummary = computeSaulSummary(c.saulRules)
            /\ IsNull(c.saulSummary) <=> ~RulesPresent(c.saulRules)

\* A merged record whose rules came from the Markdown because the JSON rule
\* map was empty, and a JSON record scored from its own rules.
C5_Witness ==
    /\ MergedCase
    /\ ~IsNull(normalizedFromJson(fnIn).saulRules)
    /\ ~RulesPresent(normalizedFromJson(fnIn).saulRules)
    /\ fnOut.company[1].saulRules = Some(RulesMd)
    /\ ~IsNull(fnOut.company[1].saulSummary)
    /\ fnOut.company[1].saulSummary[1].baseScore = 50

\* The compression block the calculator derives from three P/E values.
CompressionFor(t, r, f) ==
    IF IsNull(t) /\ IsNull(r) /\ IsNull(f) THEN Null
    ELSE Some(peCompressionOf(t, r, f))

\* C6: after overlayLivePrice the calculated distanceFromHigh, gav and
\* peCompression of the returned record are what the calculator gives for
\* that record's live price and re-derived P/E values, whether or not the
\* record had a usable report price.
C6_OverlayRecomputes ==
    fnPc = "overlaid" =>
        LET o == fnOut.overlaid[1]
        IN  /\ o.calculated.distanceFromHigh = distanceFrom52WeekHigh(o)
            /\ o.calculated.gav = growthAdjustedValuation(o)
            /\ o.calculated.peCompression =
                   CompressionFor(o.trailingPe, o.runRatePe, o.forwardPe)

\* Two nullable numbers are both null, both NaN, or at most 0.01 apart.
NumClose(x, y) ==
    IF IsNull(x) \/ IsNull(y) THEN x = y
    ELSE IF x[1].nan \/ y[1].nan THEN x[1].nan = y[1].nan
    ELSE Abs(FSub(FracOf(x[1]), FracOf(y[1])).n) * 100
            <= FSub(FracOf(x[1]), FracOf(y[1])).d

CompressionNumbers ==
    {"trailingPe", "runRatePe", "forwardPe",
     "trailingToRunRate", "runRateToForward", "totalCompression"}

\* Two compression blocks are both null, or agree on the interpretation and,
\* to 0.01, on their six numbers.
CompressionClose(p, q) ==
    IF IsNull(p) \/ IsNull(q) THEN p = q
    ELSE /\ p[1].interpretation = q[1].interpretation
         /\ \A k \in CompressionNumbers : NumClose(p[1][k], q[1][k])

\* Two calculated blocks agree, their numbers to 0.01.
CalculatedClose(a, b) ==
    /\ a.ticker = b.ticker
    /\ a.momentum = b.momentum
    /\ a.operatingLeverage = b.operatingLeverage
    /\ NumClose(a.gav, b.gav)
    /\ NumClose(a.distanceFromHigh, b.distanceFromHigh)
    /\ CompressionClose(a.peCompression, b.peCompression)

\* The overlay was called with the record's own report price.
OverlaidWithOwnPrice ==
    /\ fnPc = "overlaid"
    /\ fnOut.livePrice = fnOut.company[1].price

\* C11: overlayLivePrice(record, record.price) gives a calculated block
\* equal, to the 2-decimal rounding tolerance, to the calculated block of
\* the enriched record, also when the source supplied the compression
\* analysis pre-computed.
C11_OwnPriceRoundTrip ==
    OverlaidWithOwnPrice =>
        CalculatedClose(fnOut.overlaid[1].calculated, fnOut.company[1].calculated)

\* loadCompany ran on a directory that could be listed.
LoadedListable == fnPc = "loaded" /\ fnIn.listable

\* The JSON file in use, and the Markdown report, is there but gives no
\* record (unreadable, unparsable, or normalizing it throws; unreadable).
JsonFails(dir) == findJsonFile(dir) # "none" /\ ~jsonLoads(dir)

MdFails(dir) == dir.md.k = "bad"

NoHistorySupplied(dir) ==
    /\ jsonLoads(dir) => normalizedFromJson(dir).quarterlyHistory = <<>>
    /\ ~IsNull(analysisOf(dir)) => analysisOf(dir)[1].quarterlyHistory = <<>>

\* C13: a record loadCompany produces (from JSON only, from Markdown only or
\* merged) whose sources had no quarterly history and whose revenueYoyPct is
\* not null has a quarterlyHistory of one synthesized entry, labeled
\* revenueRecentLabel, or "Latest" when that label is empty.
C13_SynthesizedHistory ==
    (fnPc = "loaded" /\ ~IsNull(fnOut.loaded.normalized)) =>
        ((NoHistorySupplied(fnIn) /\ ~IsNull(fnOut.loaded.normalized[1].revenueYoyPct)) =>
            /\ Len(fnOut.loaded.normalized[1].quarterlyHistory) = 1
            /\ fnOut.loaded.normalized[1].quarterlyHistory[1].quarter =
                   JsOr(fnOut.loaded.normalized[1].revenueRecentLabel, JText("Latest"))
            /\ fnOut.loaded.normalized[1].quarterlyHistory[1].revenueYoyPct =
                   fnOut.loaded.normalized[1].revenueYoyPct)

\* C14: a loaded record is flagged markdownOnly exactly when no JSON record
\* was obtained and a Markdown analysis was; a flagged record has the ticker
\* in upper case, null marketCapMil, revenueRecentMil, confidenceLevel and
\* currentlyProfitable, and empty keyStrengths, keyConcerns and riskFactors.
C14_MarkdownOnlyRecord ==
    (fnPc = "loaded" /\ ~IsNull(fnOut.loaded.normalized)) =>
        /\ fnOut.loaded.normalized[1].markdownOnly <=>
               (~jsonLoads(fnIn) /\ ~IsNull(analysisOf(fnIn)))
        /\ fnOut.loaded.normalized[1].markdownOnly =>
               /\ fnOut.loaded.normalized[1].ticker = JText("AAA")
               /\ IsNull(fnOut.loaded.normalized[1].marketCapMil)
               /\ IsNull(fnOut.loaded.normalized[1].revenueRecentMil)
               /\ fnOut.loaded.normalized[1].confidenceLevel = JNull
               /\ fnOut.loaded.normalized[1].currentlyProfitable = JNull
               /\ fnOut.loaded.normalized[1].keyStrengths = <<>>
               /\ fnOut.loaded.normalized[1].keyConcerns = <<>>
               /\ fnOut.loaded.normalized[1].riskFactors = <<>>

\* A directory with a Markdown report and no JSON file at all, loaded under
\* the lower-case name: the record is flagged and carries the report's P/E.
C14_Witness ==
    /\ fnPc = "loaded"
    /\ findJsonFile(fnIn) = "none"
    /\ ~IsNull(fnOut.loaded.normalized)
    /\ fnOut.loaded.normalized[1].markdownOnly
    /\ fnOut.loaded.normalized[1].ticker = JText("AAA")
    /\ fnOut.loaded.normalized[1].trailingPe = D(40)
    /\ fnOut.loaded.normalized[1].riskFactors = <<>>

\* The record came from the JSON file alone, so its history is the
\* normalizer's history after backfillQuarterEndDates.
\* The position of a quarter label in time.
QuarterKey(quarter) == 4 * quarter.y + quarter.q

\* Each entry with a quarter label is later than the labeled entry after it.
NewestFirst(hist) ==
    \A i \in 1..(Len(hist) - 1) :
        (hist[i].quarter.t = "qlabel" /\ hist[i + 1].quarter.t = "qlabel") =>
            QuarterKey(hist[i].quarter) > QuarterKey(hist[i + 1].quarter)

\* C24: the quarterlyHistory of every loaded record is ordered newest
\* first, whatever order the JSON quarterly_history array or the Markdown
\* quarterly revenue lines had in the source.
C24_HistoryNewestFirst ==
    (fnPc = "loaded" /\ ~IsNull(fnOut.loaded.normalized)) =>
        NewestFirst(fnOut.loaded.normalized[1].quarterlyHistory)

\* A delta of the block is null or the difference (rounded to 2 decimals or
\* not) of the two record values it is named after.
DeltaOfRecord(delta, a, b) ==
    ~IsNull(delta) =>
        /\ ~IsNull(a) /\ ~IsNull(b)
        /\ delta[1] \in {DecSub(a[1], b[1]), round2(DecSub(a[1], b[1]))}

CompressionOfRecord(p, c) ==
    /\ p.trailingPe = c.trailingPe
    /\ p.runRatePe = c.runRatePe
    /\ p.forwardPe = c.forwardPe
    /\ DeltaOfRecord(p.trailingToRunRate, c.trailingPe, c.runRatePe)
    /\ DeltaOfRecord(p.runRateToForward, c.runRatePe, c.forwardPe)
    /\ DeltaOfRecord(p.totalCompression, c.trailingPe, c.forwardPe)

\* C26: the calculated peCompression of every enriched record has the
\* record's own trailingPe, runRatePe and forwardPe (values filled in from
\* Markdown during the merge included), and each non-null delta is the
\* difference of the corresponding two record values.
C26_CompressionOfOwnPes ==
    (fnPc = "loaded" /\ ~IsNull(fnOut.company)) =>
        (~IsNull(fnOut.company[1].calculated.peCompression) =>
            CompressionOfRecord(fnOut.company[1].calculated.peCompression[1],
                                fnOut.company[1]))

JsonOnlyCase ==
    /\ fnPc = "loaded"
    /\ ~fnOut.loaded.threw
    /\ jsonLoads(fnIn)
    /\ IsNull(fnOut.loaded.analysis)

OtherQuarterFields ==
    {"quarter", "revenueMil", "revenueYoyPct", "revenueQoqPct", "ebitdaMil"}

\* Entry after of the backfilled history keeps what entry before held.
OnlyFillsGaps(before, after) ==
    /\ before.quarterEnd # JNull => after.quarterEnd = before.quarterEnd
    /\ before.calendarQuarter # JNull => after.calendarQuarter = before.calendarQuarter
    /\ \A k \in OtherQuarterFields : after[k] = before[k]

\* C15: backfillQuarterEndDates only fills gaps: every entry keeps a
\* quarterEnd and a calendarQuarter that the normalizer had set, and all its
\* other fields.
C15_BackfillFillsGapsOnly ==
    JsonOnlyCase =>
        LET before == normalizeCompany(primaryJsonFile(fnIn).doc).quarterlyHistory
            after == fnOut.loaded.normalized[1].quarterlyHistory
        IN  /\ Len(after) = Len(before)
            /\ \A i \in DOMAIN before : OnlyFillsGaps(before[i], after[i])

\* ------------------------------------------------------------------------
\* dataLoader.js: the catalog
\*
\* The module variables of dataLoader are handled as one record m, so that
\* refresh, getCompanies and getCompany can be composed of loadAll.  Every
\* operator gives [threw, m] (and value, when it returns normally): the
\* module state as the call leaves it, exception or not.  Node runs each
\* synchronous handler to completion, so a handler is one step.  Tickers in
\* documents are strings or absent.
\* ------------------------------------------------------------------------

Loader ==
    [cachedCompanies |-> cachedCompanies,
     cachedAnalyses |-> cachedAnalyses,
     cachedRawMarkdown |-> cachedRawMarkdown,
     lastLoadTime |-> lastLoadTime,
     portfolioHoldings |-> portfolioHoldings,
     refreshTimer |-> refreshTimer,
     intervals |-> intervals,
     storedCompanies |-> storedCompanies]

SetLoader(m) ==
    /\ cachedCompanies' = m.cachedCompanies
    /\ cachedAnalyses' = m.cachedAnalyses
    /\ cachedRawMarkdown' = m.cachedRawMarkdown
    /\ lastLoadTime' = m.lastLoadTime
    /\ portfolioHoldings' = m.portfolioHoldings
    /\ refreshTimer' = m.refreshTimer
    /\ intervals' = m.intervals
    /\ storedCompanies' = m.storedCompanies

\* The holdings loadPortfolioConfig leaves: [] when the file cannot be read.
loadPortfolioConfig(file) ==
    IF IsNull(file) THEN <<>>
    ELSE [i \in DOMAIN file[1] |-> tickerToUpperCase(file[1][i])]

\* s.filter(...): the elements at the kept indices, in order.
FilterSeq(s, kept) ==
    LET nth(k) == CHOOSE i \in kept : Cardinality({j \in kept : j <= i}) = k
    IN  [k \in 1..Cardinality(kept) |-> s[nth(k)]]

scanReportsDirectory(d) ==
    IF ~d.exists THEN <<>>
    ELSE FilterSeq(d.dirs, {i \in DOMAIN d.dirs : d.dirs[i].name # "validation"})

\* The order localeCompare puts the ticker strings in use into.
localeRank(s) ==
    CASE s = "aaa" -> 1 [] s = "AAA" -> 2 [] s = "bbb" -> 3 [] s = "BBB" -> 4
      [] s = "UNKNOWN" -> 5 [] OTHER -> 6

\* a.ticker.localeCompare(b.ticker) <= 0
tickerLeq(a, b) == localeRank(a.ticker.s) <= localeRank(b.ticker.s)

\* Array.prototype.sort with that comparison: a stable sort.
RECURSIVE InsertSorted(_, _)
InsertSorted(sorted, x) ==
    IF sorted = <<>> THEN <<x>>
    ELSE IF tickerLeq(Head(sorted), x) THEN <<Head(sorted)>> \o InsertSorted(Tail(sorted), x)
    ELSE <<x>> \o sorted

RECURSIVE sortByTicker(_)
sortByTicker(s) ==
    IF s = <<>> THEN <<>>
    ELSE InsertSorted(sortByTicker(SubSeq(s, 1, Len(s) - 1)), s[Len(s)])

\* The value the loop leaves under key t, picked being the value each
\* directory's result offers (Null: none): that of the last directory of
\* that ticker which offers one.
LastFor(results, t, picked) ==
    LET hits == {i \in DOMAIN results : results[i].ticker = t /\ ~IsNull(picked[i])}
    IN  picked[CHOOSE i \in hits : \A j \in hits : j <= i][1]

KeysOf(results, picked) ==
    {results[i].ticker : i \in {j \in DOMAIN results : ~IsNull(picked[j])}}

\* if (result.rawMarkdown): the empty text is not cached.
truthyMarkdown(result) ==
    IF ~IsNull(result.rawMarkdown) /\ ~result.rawMarkdown[1].empty
    THEN result.rawMarkdown ELSE Null

\* The directories the loop of loadAll does not skip.
includedAmong(companyDirs, holdings) ==
    FilterSeq(companyDirs,
              {i \in DOMAIN companyDirs :
                  holdings = <<>> \/ tickerToUpperCase(companyDirs[i].name) \in Range(holdings)})

includedDirs(d, holdings) == includedAmong(scanReportsDirectory(d), holdings)

\* allCompanies: the records of the results that have one, in order.
companiesOf(loadedOnes) == [i \in DOMAIN loadedOnes |-> loadedOnes[i].normalized[1]]

\* An object of the loop keyed by ticker, picked[i] being what result i
\* offers for it.
keyedByTicker(results, picked) ==
    [t \in KeysOf(results, picked) |-> LastFor(results, t, picked)]

\* An auto-refresh that sets an interval whether or not one is set.
startAutoRefreshUnguarded(m) ==
    [m EXCEPT !.refreshTimer = TRUE, !.intervals = @ + 1]

\* if (refreshTimer) return; refreshTimer = setInterval(...)
startAutoRefresh(m) ==
    IF m.refreshTimer THEN m
    ELSE [m EXCEPT !.refreshTimer = TRUE, !.intervals = @ + 1]

\* The assignments to the caches at the end of loadAll.
publishLoaded(started, enriched, analyses, rawMarkdowns) ==
    [threw |-> FALSE,
     m |-> startAutoRefresh([started EXCEPT !.cachedCompanies = enriched,
                                            !.storedCompanies = enriched,
                                            !.cachedAnalyses = analyses,
                                            !.cachedRawMarkdown = rawMarkdowns,
                                            !.lastLoadTime = Some("loaded")]),
     value |-> enriched]

\* results holds what loadCompany gave for each directory; an exception of
\* one of the calls leaves loadAll.
loadAllResults(started, results) ==
    IF \E i \in DOMAIN results : results[i].threw
    THEN [threw |-> TRUE, m |-> started]
    ELSE publishLoaded(
            started,
            enrichCompanies(sortByTicker(companiesOf(
                FilterSeq(results, {i \in DOMAIN results : ~IsNull(results[i].normalized)})))),
            keyedByTicker(results, [i \in DOMAIN results |-> results[i].analysis]),
            keyedByTicker(results, [i \in DOMAIN results |-> truthyMarkdown(results[i])]))

loadAllDirs(started, included) ==
    loadAllResults(started,
        [i \in DOMAIN included |->
            loadCompany(included[i].dir, tickerToUpperCase(included[i].name))])

loadAllWith(m, d, holdings) ==
    loadAllDirs([m EXCEPT !.portfolioHoldings = holdings], includedDirs(d, holdings))

loadAll(m, d, file) == loadAllWith(m, d, loadPortfolioConfig(file))

refresh(m, d, file) ==
    loadAll([m EXCEPT !.cachedCompanies = <<>>,
                      !.storedCompanies = <<>>,
                      !.cachedAnalyses = <<>>,
                      !.cachedRawMarkdown = <<>>], d, file)

getCompanies(m, d, file) ==
    IF m.cachedCompanies = <<>> THEN loadAll(m, d, file)
    ELSE [threw |-> FALSE, m |-> m, value |-> m.cachedCompanies]

\* cache[t] || null
CachedOrNull(cache, t) == IF t \in DOMAIN cache THEN Some(cache[t]) ELSE Null

\* The position of the first record with ticker t (0 when there is none).
indexOfTicker(companies, t) ==
    IF \A i \in DOMAIN companies : companies[i].ticker # JText(t) THEN 0
    ELSE CHOOSE i \in DOMAIN companies :
            /\ companies[i].ticker = JText(t)
            /\ \A j \in 1..(i - 1) : companies[j].ticker # JText(t)

foundCompany(got, t, index) ==
    [threw |-> FALSE, m |-> got.m, index |-> index,
     value |-> [company |-> IF index = 0 THEN Null ELSE Some(got.value[index]),
                analysis |-> CachedOrNull(got.m.cachedAnalyses, t),
                rawMarkdown |-> CachedOrNull(got.m.cachedRawMarkdown, t)]]

getCompanyFrom(got, t) ==
    IF got.threw THEN got ELSE foundCompany(got, t, indexOfTicker(got.value, t))

\* getCompany: index is the position of the record found (0 when none).
getCompany(m, d, file, ticker) ==
    getCompanyFrom(getCompanies(m, d, file), tickerToUpperCase(ticker))

\* ------------------------------------------------------------------------
\* index.js: startup and request handlers
\* ------------------------------------------------------------------------

\* The last stock of the list with ticker t and a truthy currentPrice.
lastPriced(stocks, t) ==
    CHOOSE i \in DOMAIN stocks :
        /\ stocks[i].ticker = t /\ Truthy(stocks[i].currentPrice)
        /\ \A j \in (i + 1)..Len(stocks) :
                ~(stocks[j].ticker = t /\ Truthy(stocks[j].currentPrice))

priceMapOf(stocks) ==
    [t \in {stocks[i].ticker : i \in {j \in DOMAIN stocks : Truthy(stocks[j].currentPrice)}} |->
        stocks[lastPriced(stocks, t)].currentPrice[1]]

\* buildLivePriceMap: the stocks with a truthy currentPrice, by ticker.
buildLivePriceMap(live) == IF IsNull(live) THEN <<>> ELSE priceMapOf(live[1])

\* Did the overlay apply a live price to one of the records?
appliesLivePrice(companies, priceMap) ==
    \E i \in DOMAIN companies : ~IsNull(livePriceOf(priceMap, companies[i].ticker))

CachesOf(m) == <<m.cachedCompanies, m.cachedAnalyses, m.cachedRawMarkdown>>

\* What a step records: its kind, whether an exception left the dataLoader
\* call, and the caches as they were before it.
OpRecord(kind, threw, ticker) ==
    [kind |-> kind, threw |-> threw, ticker |-> ticker, before |-> CachesOf(Loader)]

\* dataLoader.loadAll() at startup; an exception ends the process.
StartupLoaded(r) ==
    /\ SetLoader(r.m)
    /\ server' = IF r.threw THEN "crashed" ELSE "serving"
    /\ overlaidSinceLoad' = FALSE
    /\ lastOp' = OpRecord("startup", r.threw, "")

Startup ==
    /\ server = "starting"
    /\ StartupLoaded(loadAll(Loader, disk, portfolioFile))
    /\ response' = Null
    /\ UNCHANGED <<disk, portfolioFile, liveData, fnVars>>

\* GET /api/refresh
ApiRefreshAnswer(r) ==
    /\ SetLoader(r.m)
    /\ response' = IF r.threw THEN Some([status |-> 500])
                   ELSE Some([status |-> 200, count |-> Len(r.value),
                              lastUpdated |-> r.m.lastLoadTime])
    /\ lastOp' = OpRecord("refresh", r.threw, "")

ApiRefresh ==
    /\ server = "serving"
    /\ ApiRefreshAnswer(refresh(Loader, disk, portfolioFile))
    /\ overlaidSinceLoad' = FALSE
    /\ UNCHANGED <<disk, portfolioFile, liveData, server, fnVars>>

\* The interval callback of startAutoRefresh: loadAll in a try / catch.
AutoRefreshLoaded(r) ==
    /\ SetLoader(r.m)
    /\ overlaidSinceLoad' = (r.threw /\ overlaidSinceLoad)
    /\ lastOp' = OpRecord("auto", r.threw, "")

AutoRefreshTick ==
    /\ server = "serving"
    /\ intervals > 0
    /\ AutoRefreshLoaded(loadAll(Loader, disk, portfolioFile))
    /\ response' = Null
    /\ UNCHANGED <<disk, portfolioFile, liveData, server, fnVars>>

\* GET /api/portfolio
ApiPortfolioOverlaid(r, o, applied, reloaded) ==
    /\ SetLoader([r.m EXCEPT !.cachedCompanies = o.companies])
    /\ response' = Some([status |-> 200,
                         companies |-> o.result,
                         count |-> Len(o.result),
                         holdings |-> r.m.portfolioHoldings,
                         lastUpdated |-> r.m.lastLoadTime])
    /\ overlaidSinceLoad' = ((overlaidSinceLoad /\ ~reloaded) \/ applied)
    /\ lastOp' = OpRecord("portfolio", FALSE, "")

ApiPortfolioAnswer(r, priceMap) ==
    IF r.threw
    THEN /\ SetLoader(r.m)
         /\ response' = Some([status |-> 500])
         /\ UNCHANGED overlaidSinceLoad
         /\ lastOp' = OpRecord("portfolio", TRUE, "")
    ELSE ApiPortfolioOverlaid(r, overlayLivePrices(r.value, priceMap),
                              appliesLivePrice(r.value, priceMap),
                              cachedCompanies = <<>>)

ApiPortfolio ==
    /\ server = "serving"
    /\ ApiPortfolioAnswer(getCompanies(Loader, disk, portfolioFile),
                          buildLivePriceMap(liveData))
    /\ UNCHANGED <<disk, portfolioFile, liveData, server, fnVars>>

\* Tickers of /api/stock/:ticker requests.
RequestTickers == {"aaa", "BBB", "ZZZ"}

\* GET /api/stock/:ticker
ApiStockOverlaid(ticker, r, o, applied, reloaded) ==
    /\ SetLoader([r.m EXCEPT !.cachedCompanies[r.index] = o.companies[1]])
    /\ response' = Some([status |-> 200,
                         company |-> o.result[1],
                         analysis |-> r.value.analysis,
                         rawMarkdown |-> r.value.rawMarkdown])
    /\ overlaidSinceLoad' = ((overlaidSinceLoad /\ ~reloaded) \/ applied)
    /\ lastOp' = OpRecord("stock", FALSE, ticker)

ApiStockAnswer(ticker, r, priceMap) ==
    IF r.threw
    THEN /\ SetLoader(r.m)
         /\ response' = Some([status |-> 500])
         /\ UNCHANGED overlaidSinceLoad
         /\ lastOp' = OpRecord("stock", TRUE, ticker)
    ELSE IF IsNull(r.value.company)
    THEN /\ SetLoader(r.m)
         /\ response' = Some([status |-> 404])
         /\ overlaidSinceLoad' = (overlaidSinceLoad /\ cachedCompanies # <<>>)
         /\ lastOp' = OpRecord("stock", FALSE, ticker)
    ELSE ApiStockOverlaid(ticker, r,
                          overlayLivePrices(<<r.value.company[1]>>, priceMap),
                          appliesLivePrice(<<r.value.company[1]>>, priceMap),
                          cachedCompanies = <<>>)

ApiStock ==
    /\ server = "serving"
    /\ \E ticker \in RequestTickers :
        ApiStockAnswer(ticker, getCompany(Loader, disk, portfolioFile, ticker),
                       buildLivePriceMap(liveData))
    /\ UNCHANGED <<disk, portfolioFile, liveData, server, fnVars>>

\* GET /api/health
ApiHealthAnswer(r) ==
    /\ SetLoader(r.m)
    /\ response' = IF r.threw THEN Some([status |-> 500])
                   ELSE Some([status |-> 200,
                              companiesLoaded |-> Len(r.value),
                              lastUpdated |-> r.m.lastLoadTime])
    /\ overlaidSinceLoad' = (overlaidSinceLoad /\ ~(~r.threw /\ cachedCompanies = <<>>))
    /\ lastOp' = OpRecord("health", r.threw, "")

ApiHealth ==
    /\ server = "serving"
    /\ ApiHealthAnswer(getCompanies(Loader, disk, portfolioFile))
    /\ UNCHANGED <<disk, portfolioFile, liveData, server, fnVars>>

\* ------------------------------------------------------------------------
\* The environment: report files and live prices change
\* ------------------------------------------------------------------------

CatalogDoc(ticker, verdict) ==
    FlatDoc(ticker,
            ("52_week_high" :> N(125)) @@
            [QBase EXCEPT !.trailing_pe = N(30), !.run_rate_pe = N(20),
                          !.revenue_yoy_pct = N(50)],
            [EvBase EXCEPT !.verdict = JText(verdict), !.rule_statuses = JObj(Rules12)])

CatalogMd(thesis) ==
    [MdBase EXCEPT !.verdict = JText("CAUTION"), !.forwardPe = D(15),
                   !.rules = RulesMd, !.bullCase = <<JText(thesis)>>]

\* What the directory "aaa" may hold.
DirEntriesA ==
    {Dir(FileDoc(CatalogDoc(JText("AAA"), "PASS")), FileAbsent, MdText(CatalogMd("a thesis"))),
     Dir(FileDoc(CatalogDoc(JText("aaa"), "PASS")), FileAbsent, MdText(CatalogMd("a thesis"))),
     Dir(FileDoc(CatalogDoc(JNull, "PASS")), FileAbsent, MdText(CatalogMd("a thesis"))),
     Dir(FileAbsent, FileAbsent, MdText(CatalogMd("a thesis"))),
     Dir(FileBad, FileAbsent, FileBad),
     [Dir(FileDoc(CatalogDoc(JText("AAA"), "PASS")), FileAbsent, FileAbsent)
         EXCEPT !.listable = FALSE]}

\* What the directory "BBB" may hold.
DirEntriesB ==
    {Dir(FileDoc(CatalogDoc(JText("BBB"), "WATCH")), FileAbsent, MdText(CatalogMd("b thesis"))),
     Dir(FileAbsent, FileAbsent, MdText(CatalogMd("b thesis"))),
     [Dir(FileAbsent, FileAbsent, MdText(CatalogMd("b thesis")))
         EXCEPT !.listable = FALSE]}

ValidationDir == Dir(FileDoc(CatalogDoc(JText("VALIDATION"), "PASS")), FileAbsent, FileAbsent)

DirEntries(i) == IF i = 1 THEN DirEntriesA ELSE DirEntriesB

Stock(ticker, currentPrice) == [ticker |-> ticker, currentPrice |-> currentPrice]

\* What the sheet poller may have cached.
LiveChoices ==
    {Null, Some(<<Stock("AAA", D(80)), Stock("BBB", D(0)), Stock("CCC", D(5))>>)}

NoOp(kind) == [kind |-> kind, threw |-> FALSE, ticker |-> "", before |-> <<>>]

Init ==
    /\ FnIdle
    /\ \E a \in DirEntriesA, b \in DirEntriesB :
        disk = [exists |-> TRUE,
                dirs |-> <<[name |-> "aaa", dir |-> a],
                           [name |-> "BBB", dir |-> b],
                           [name |-> "validation", dir |-> ValidationDir]>>]
    /\ portfolioFile \in {Null, Some(<<"bbb">>)}
    /\ liveData = Null
    /\ server = "starting"
    /\ cachedCompanies = <<>>
    /\ cachedAnalyses = <<>>
    /\ cachedRawMarkdown = <<>>
    /\ lastLoadTime = Null
    /\ portfolioHoldings = <<>>
    /\ refreshTimer = FALSE
    /\ intervals = 0
    /\ storedCompanies = <<>>
    /\ overlaidSinceLoad = FALSE
    /\ response = Null
    /\ lastOp = NoOp("none")

\* The files of one company directory change.
DiskChange ==
    /\ \E i \in 1..2 : \E e \in DirEntries(i) :
        /\ e # disk.dirs[i].dir
        /\ disk' = [disk EXCEPT !.dirs[i].dir = e]
    /\ response' = Null
    /\ lastOp' = NoOp("env")
    /\ UNCHANGED <<portfolioFile, liveData, server, cachedCompanies, cachedAnalyses,
                   cachedRawMarkdown, lastLoadTime, portfolioHoldings, refreshTimer,
                   intervals, storedCompanies, overlaidSinceLoad, fnVars>>

\* The reports directory is removed or put back.
ReportsDirChange ==
    /\ disk' = [disk EXCEPT !.exists = ~@]
    /\ response' = Null
    /\ lastOp' = NoOp("env")
    /\ UNCHANGED <<portfolioFile, liveData, server, cachedCompanies, cachedAnalyses,
                   cachedRawMarkdown, lastLoadTime, portfolioHoldings, refreshTimer,
                   intervals, storedCompanies, overlaidSinceLoad, fnVars>>

\* The sheet poller caches new live data.
LiveDataChange ==
    /\ \E live \in LiveChoices :
        /\ live # liveData
        /\ liveData' = live
    /\ response' = Null
    /\ lastOp' = NoOp("env")
    /\ UNCHANGED <<disk, portfolioFile, server, cachedCompanies, cachedAnalyses,
                   cachedRawMarkdown, lastLoadTime, portfolioHoldings, refreshTimer,
                   intervals, storedCompanies, overlaidSinceLoad, fnVars>>

Next ==
    \/ Startup
    \/ ApiRefresh
    \/ AutoRefreshTick
    \/ ApiPortfolio
    \/ ApiStock
    \/ ApiHealth
    \/ DiskChange
    \/ ReportsDirChange
    \/ LiveDataChange

Spec == Init /\ [][Next]_vars

\* Steps in which dataLoader may run loadAll, and those that always do.
ReaderOrLoadKinds == {"startup", "refresh", "auto", "portfolio", "stock", "health"}

LoadKinds == {"startup", "refresh", "auto"}

\* C1: after every step the caches (records, analyses and raw markdown
\* together) are either what they were before the step or the complete
\* snapshot of a load that ran to its end; a load or refresh that ended
\* with an exception leaves the previous snapshot.
C1_AtomicSwap ==
    lastOp.kind \in ReaderOrLoadKinds =>
        \/ CachesOf(Loader) = lastOp.before
        \/ LET r == loadAll(Loader, disk, portfolioFile)
           IN  ~r.threw /\ CachesOf(Loader) = CachesOf(r.m)

\* C2: after loadAll ran, every directory of the batch whose own load
\* raises no error and gives a record has that record in the catalog,
\* whatever happened while loading the other directories.
C2_ErrorIsolation ==
    lastOp.kind \in LoadKinds =>
        LET included == includedDirs(disk, portfolioHoldings)
        IN  \A i \in DOMAIN included :
                LET r == loadCompany(included[i].dir, tickerToUpperCase(included[i].name))
                IN  (~r.threw /\ ~IsNull(r.normalized)) =>
                        \E k \in DOMAIN cachedCompanies :
                            cachedCompanies[k] = enrichCompany(r.normalized[1])

CanonicalTickers == {JText(tickerToUpperCase(disk.dirs[i].name)) : i \in DOMAIN disk.dirs}

\* C3: every cached record carries the canonical uppercase ticker of a
\* company directory, and getCompany(t), in any letter case of t, gives the
\* record of the entity whose analysis is cached under that ticker,
\* together with that analysis.
C3_TickerJoin ==
    /\ \A i \in DOMAIN cachedCompanies : cachedCompanies[i].ticker \in CanonicalTickers
    /\ (lastOp.kind = "stock" /\ ~lastOp.threw) =>
           LET t == tickerToUpperCase(lastOp.ticker)
           IN  t \in DOMAIN cachedAnalyses =>
                   /\ response[1].status = 200
                   /\ response[1].company.ticker = JText(t)
                   /\ response[1].analysis = Some(cachedAnalyses[t])

\* The record as a response carries it when no live price applies.
ReportRecord(company) == [priceSource |-> "report"] @@ company

NoLivePrice(company) ==
    IsNull(livePriceOf(buildLivePriceMap(liveData), company.ticker))

\* C10: whatever requests were served, the cached records are the ones
\* loadAll stored; and a response carries, for every record without a live
\* price, the stored report values with priceSource "report".
C10_OverlayLeavesCache ==
    /\ cachedCompanies = storedCompanies
    /\ (lastOp.kind = "portfolio" /\ ~lastOp.threw) =>
           \A i \in DOMAIN storedCompanies :
               NoLivePrice(storedCompanies[i]) =>
                   response[1].companies[i] = ReportRecord(storedCompanies[i])
    /\ (lastOp.kind = "stock" /\ ~lastOp.threw /\ response[1].status = 200) =>
           \/ response[1].company.priceSource = "live"
           \/ \E i \in DOMAIN storedCompanies :
                  /\ NoLivePrice(storedCompanies[i])
                  /\ response[1].company = ReportRecord(storedCompanies[i])

\* A live price was overlaid on the record of AAA after the last load, the
\* live data then went away, and /api/portfolio answers with report values.
C10_Witness ==
    /\ overlaidSinceLoad
    /\ lastOp.kind = "portfolio"
    /\ ~lastOp.threw
    /\ liveData = Null
    /\ \E i \in DOMAIN response[1].companies :
           /\ response[1].companies[i].ticker = JText("AAA")
           /\ response[1].companies[i].priceSource = "report"
           /\ response[1].companies[i].price = D(100)
           /\ response[1].companies[i].calculated.distanceFromHigh = D(-20)

\* ------------------------------------------------------------------------
\* markdownParser.js: extractSaulRules
\*
\* The report is the sequence of its rule mentions in document order.  A
\* mention is [kind, sep, digits, letter, word]: the separator after "R"
\* ("_", "-" or none), the digits and the optional letter of the rule
\* number, and the status word as written.  kind is what stands around the
\* status: "bracket" is a table row with the status in square brackets,
\* "plain" a table row with the bare status, "emoji" a table row with an
\* emoji or bold marks before the status, "inline" a bold phrase.  The
\* bracket pattern matches bracket and plain rows (its brackets are
\* optional), the emoji pattern plain and emoji rows (its emoji are
\* optional), the inline pattern the bold phrases.
\* ------------------------------------------------------------------------

\* match[1]: the digits and the letter; the separator is not captured.
ruleNumOf(mention) == mention.digits \o mention.letter

\* ruleNum.padStart(3, '0')
padStart3(s) ==
    IF Len(s) >= 3 THEN s
    ELSE IF Len(s) = 2 THEN "0" \o s
    ELSE IF Len(s) = 1 THEN "00" \o s
    ELSE "000"

\* `R_${ruleNum.padStart(3, '0')}`
ruleKey(mention) == "R_" \o padStart3(ruleNumOf(mention))

\* match[2].toUpperCase().replace(/\s+/g, '_') on the status words in use.
statusOfWord(word) ==
    CASE word \in {"PASS", "Pass"} -> "PASS"
      [] word \in {"FAIL", "Fail"} -> "FAIL"
      [] word = "Insufficient Data" -> "INSUFFICIENT_DATA"
      [] OTHER -> word

BracketKinds == {"bracket", "plain"}

EmojiKinds == {"plain", "emoji"}

InlineKinds == {"inline"}

\* rules[key] = status
PutRule(rules, key, status) ==
    [k \in DOMAIN rules \cup {key} |-> IF k = key THEN status ELSE rules[k]]

\* The loop of the bracket pattern: every match is assigned.
RECURSIVE bracketPass(_, _)
bracketPass(md, rules) ==
    IF md = <<>> THEN rules
    ELSE bracketPass(Tail(md),
            IF Head(md).kind \in BracketKinds
            THEN PutRule(rules, ruleKey(Head(md)), statusOfWord(Head(md).word))
            ELSE rules)

\* The loops of the emoji and inline patterns: if (!rules[key]) rules[key] = status.
RECURSIVE gapPass(_, _, _)
gapPass(md, rules, kinds) ==
    IF md = <<>> THEN rules
    ELSE gapPass(Tail(md),
            IF Head(md).kind \in kinds /\ ruleKey(Head(md)) \notin DOMAIN rules
            THEN PutRule(rules, ruleKey(Head(md)), statusOfWord(Head(md).word))
            ELSE rules,
            kinds)

extractSaulRules(md) ==
    gapPass(md, gapPass(md, bracketPass(md, <<>>), EmojiKinds), InlineKinds)

\* Most rule mentions of a drawn report.
MaxMentions == 2

RuleNumbers ==
    {<<"_", "001", "">>, <<"-", "1", "">>, <<"-", "1", "A">>, <<"_", "001", "A">>,
     <<"", "18", "">>}

StatusWords == {"PASS", "Fail", "Insufficient Data"}

Mentions ==
    {[kind |-> kind, sep |-> id[1], digits |-> id[2], letter |-> id[3], word |-> word] :
        kind \in {"bracket", "plain", "emoji", "inline"}, id \in RuleNumbers,
        word \in StatusWords}

InitRules ==
    /\ fnIn \in SeqsUpTo(Mentions, MaxMentions)
    /\ fnOut = Null
    /\ fnPc = "call"
    /\ CatalogIdle

CallExtractSaulRules ==
    /\ fnPc = "call"
    /\ fnOut' = extractSaulRules(fnIn)
    /\ fnPc' = "rules"
    /\ UNCHANGED <<fnIn, catVars>>

NextRules == CallExtractSaulRules

SpecRules == InitRules /\ [][NextRules]_vars

\* R_ followed by the digits zero-padded to three and the optional letter.
PaddedKey(mention) == "R_" \o padStart3(mention.digits) \o mention.letter

\* C16: every rule mention is stored under R_, its digits zero-padded to
\* three digits, then its optional letter, so that R-1A and R_001A share the
\* key R_001A; and nothing else is stored.
C16_ZeroPaddedKeys ==
    fnPc = "rules" =>
        DOMAIN fnOut = {PaddedKey(fnIn[i]) : i \in DOMAIN fnIn}

\* The matches in the order the code finds them: all matches of the bracket
\* pattern in document order, then those of the emoji pattern, then those of
\* the inline pattern.
MatchesOf(md, kinds) == FilterSeq(md, {i \in DOMAIN md : md[i].kind \in kinds})

MatchOrder(md) ==
    MatchesOf(md, BracketKinds) \o MatchesOf(md, EmojiKinds) \o MatchesOf(md, InlineKinds)

\* The status of the earliest match stored under the key.
FirstMatchStatus(matches, key) ==
    statusOfWord(matches[CHOOSE i \in DOMAIN matches :
                            /\ ruleKey(matches[i]) = key
                            /\ \A j \in 1..(i - 1) : ruleKey(matches[j]) # key].word)

\* C17: the status stored for a rule id is that of its earliest match in
\* the order bracket matches, emoji matches, inline matches; a later match
\* never replaces a stored status.
C17_FirstMatchWins ==
    fnPc = "rules" =>
        \A key \in DOMAIN fnOut : fnOut[key] = FirstMatchStatus(MatchOrder(fnIn), key)

\* ------------------------------------------------------------------------
\* normalizer.js: the debt level
\* ------------------------------------------------------------------------

\* String.prototype.toLowerCase on the debt-level texts in use.
toLowerCase(s) ==
    CASE s \in {"none", "None", "NONE"} -> "none"
      [] s \in {"low", "Low", "LOW"} -> "low"
      [] s \in {"moderate", "Moderate", "MODERATE"} -> "moderate"
      [] s \in {"high", "High", "HIGH"} -> "high"
      [] s = "Minimal" -> "minimal"
      [] OTHER -> s

DebtEnum == {"none", "low", "moderate", "high"}

\* d < c * tenths / 10 for decimals d and c (false when either is NaN).
DecLtTenths(d, c, tenths) ==
    /\ ~d.nan /\ ~c.nan
    /\ 10 * FracN(d) * FracD(c) < tenths * FracN(c) * FracD(d)

\* The inference from the total debt d and the cash, both through safeNum.
debtLevelInferred(d, cash) ==
    IF IsNull(d) \/ (~d[1].nan /\ d[1].m = 0) THEN "none"
    ELSE IF ~IsNull(cash) /\ DecLtTenths(d[1], cash[1], 3) THEN "low"
    ELSE IF ~IsNull(cash) /\ DecLtTenths(d[1], cash[1], 10) THEN "moderate"
    ELSE "high"

\* dl is the explicit level (the level strings are text values), debt is
\* balance_sheet.total_debt.
debtLevelOf(q, dl, debt) ==
    IF dl.t = "text" /\ toLowerCase(dl.s) \in DebtEnum THEN toLowerCase(dl.s)
    ELSE IF debt # JNull /\ debt # JStr(NA1)
    THEN debtLevelInferred(safeNum(debt),
                           safeNum(dig(q, <<<<"balance_sheet", "total_cash">>,
                                            <<"cash_and_equivalents">>>>)))
    ELSE "unknown"

extractDebtLevel(q) ==
    debtLevelOf(q, dig(q, <<<<"debt_level">>, <<"balance_sheet", "debt_level">>>>),
                dig(q, <<<<"balance_sheet", "total_debt">>>>))

\* The documents the debt level is extracted from.
DebtLevelValues ==
    {JNull, JText("Low"), JText("HIGH"), JText("none"), JText("Moderate"),
     JText("Minimal"), N(7)}

NestedDebtLevelValues == {JNull, JText("moderate"), JText("Minimal")}

TotalDebtValues ==
    {JNull, JStr(NA1), JStr(NA2), N(0), JStr(<<"0">>), N(10), N(29), N(30),
     N(99), N(100), N(150), JNum(Dec(295, -1)), JStr(<<"1", ".", "5", "B">>),
     JStr(<<"a", "b", "c">>), JStr(<<>>)}

TotalCashValues == {JNull, N(100), N(0), JStr(NA1)}

CashEquivalentValues == {JNull, N(40)}

debtDoc(dl, nestedDl, debt, cash, cashEq) ==
    JObj([debt_level |-> dl,
          balance_sheet |-> JObj([debt_level |-> nestedDl, total_debt |-> debt,
                                  total_cash |-> cash]),
          cash_and_equivalents |-> cashEq])

DebtInputs ==
    {EmptyObj, JObj([cash_and_equivalents |-> N(40)]), JObj([debt_level |-> JText("LOW")])}
    \cup {debtDoc(dl, n, debt, cash, ce) :
            dl \in DebtLevelValues, n \in NestedDebtLevelValues,
            debt \in TotalDebtValues, cash \in TotalCashValues,
            ce \in CashEquivalentValues}

InitDebt ==
    /\ fnIn \in DebtInputs
    /\ fnOut = Null
    /\ fnPc = "call"
    /\ CatalogIdle

CallExtractDebtLevel ==
    /\ fnPc = "call"
    /\ fnOut' = extractDebtLevel(fnIn)
    /\ fnPc' = "debtLevel"
    /\ UNCHANGED <<fnIn, catVars>>

NextDebt == CallExtractDebtLevel

SpecDebt == InitDebt /\ [][NextDebt]_vars

\* The explicit level, the total debt and the cash of a document, read
\* independently of the extractor.
ExplicitLevel(q) == dig(q, <<<<"debt_level">>, <<"balance_sheet", "debt_level">>>>)

HasExplicitLevel(q) ==
    ExplicitLevel(q).t = "text" /\ toLowerCase(ExplicitLevel(q).s) \in DebtEnum

TotalDebt(q) == safeNum(Prop(Prop(q, "balance_sheet"), "total_debt"))

FirstNonNull(a, b) == IF a # JNull THEN a ELSE b

TotalCash(q) ==
    safeNum(FirstNonNull(Prop(Prop(q, "balance_sheet"), "total_cash"),
                      Prop(q, "cash_and_equivalents")))

\* C20: the debt level is the explicit enum string, lower-cased, when one
\* of none/low/moderate/high is supplied; otherwise it is none when the
\* total debt is zero or absent, low when the debt is below 30% of the
\* cash, moderate when below 100% of it, else high; it is always one of
\* none, low, moderate, high, unknown.
C20_DebtLevel ==
    fnPc = "debtLevel" =>
        /\ fnOut \in DebtEnum \cup {"unknown"}
        /\ HasExplicitLevel(fnIn) => fnOut = toLowerCase(ExplicitLevel(fnIn).s)
        /\ ~HasExplicitLevel(fnIn) =>
              fnOut = (IF IsNull(TotalDebt(fnIn)) \/ TotalDebt(fnIn)[1].m = 0
                       THEN "none"
                       ELSE IF /\ ~IsNull(TotalCash(fnIn))
                               /\ DecLtTenths(TotalDebt(fnIn)[1], TotalCash(fnIn)[1], 3)
                       THEN "low"
                       ELSE IF /\ ~IsNull(TotalCash(fnIn))
                               /\ DecLtTenths(TotalDebt(fnIn)[1], TotalCash(fnIn)[1], 10)
                       THEN "moderate"
                       ELSE "high")

\* ------------------------------------------------------------------------
\* calculator.js: the derived metrics applied to bounded records
\* ------------------------------------------------------------------------

\* Does operatingLeverage reach a quotient whose divisor 1 + yoy / 100 is 0?
\* (ebitdaYoY = -100 is returned on before; revenueYoY = -100 is not.)
leverageDividesByZero(E, R, ey, ry) ==
    /\ ~(IsNull(E) \/ IsNull(R) \/ IsNull(ey) \/ IsNull(ry))
    /\ ~(ry[1].m = 0 \/ ey[1] = Dec(-100, 0))
    /\ (onePlusPct(ey[1]).n = 0 \/ onePlusPct(ry[1]).n = 0)

QoqValues == {Null, Some(Dec(10004, -3)), D(10), D(8), D(6), D(3), D(-5)}

RevenueValues == {Null, D(0), D(100), D(110)}

HistoryEntries == {[revenueQoqPct |-> q, revenueMil |-> r] : q \in QoqValues, r \in RevenueValues}

LastEntries == {[revenueQoqPct |-> Null, revenueMil |-> r] : r \in RevenueValues}

MomentumHistories ==
    {<<>>}
    \cup {<<a, b>> : a, b \in {[revenueQoqPct |-> D(10), revenueMil |-> D(100)]}}
    \cup {<<a, b, c>> : a, b \in HistoryEntries, c \in LastEntries}
    \cup {<<a, b, c, c>> : a, b \in {[revenueQoqPct |-> q, revenueMil |-> Null] : q \in QoqValues},
                           c \in LastEntries}

EbitdaValues == {Null, D(0), D(10), D(-5), D(30)}

LeverageRevenues == {Null, D(0), D(100), D(50)}

EbitdaYoyValues == {Null, D(-100), D(0), D(50), D(-200), D(25)}

RevenueYoyValues == {Null, D(0), D(-100), D(25), D(100), D(-50)}

calcRecord(hist, E, R, ey, ry) ==
    [quarterlyHistory |-> hist, ebitdaMil |-> E, revenueRecentMil |-> R,
     ebitdaYoyPct |-> ey, revenueYoyPct |-> ry]

CalcInputs ==
    {calcRecord(h, D(10), D(100), D(50), D(25)) : h \in MomentumHistories}
    \cup {calcRecord(<<>>, E, R, ey, ry) :
            E \in EbitdaValues, R \in LeverageRevenues,
            ey \in EbitdaYoyValues, ry \in RevenueYoyValues}

InitCalc ==
    /\ fnIn \in CalcInputs
    /\ fnOut = Null
    /\ fnPc = "call"
    /\ CatalogIdle

CallSequentialMomentum ==
    /\ fnPc = "call"
    /\ fnOut' = sequentialMomentum(fnIn)
    /\ fnPc' = "momentum"
    /\ UNCHANGED <<fnIn, catVars>>

CallOperatingLeverage ==
    /\ fnPc = "call"
    /\ fnOut' = operatingLeverage(fnIn)
    /\ fnPc' = "leverage"
    /\ UNCHANGED <<fnIn, catVars>>

NextCalc == CallSequentialMomentum \/ CallOperatingLeverage

SpecCalc == InitCalc /\ [][NextCalc]_vars

\* The QoQ growth of entry i is given, or its revenue and that of the entry
\* after it are given and the latter is not 0.
QoqDerivable(hist, i) ==
    \/ ~IsNull(hist[i].revenueQoqPct)
    \/ /\ ~IsNull(hist[i].revenueMil) /\ ~IsNull(hist[i + 1].revenueMil)
       /\ hist[i + 1].revenueMil[1].m # 0

DecGtInt(d, k) == FracN(d) > k * FracD(d)

DecLtInt(d, k) == FracN(d) < k * FracD(d)

\* C22: sequentialMomentum returns null unless the history has at least 3
\* entries and both QoQ values are available or derivable; a result has
\* delta = currentQoq - priorQoq rounded to 2 decimals and a trend that
\* agrees with the reported delta: accelerating exactly when delta > 2,
\* decelerating exactly when delta < -2, otherwise stable.
C22_MomentumTrend ==
    (fnPc = "momentum" /\ ~IsNull(fnOut)) =>
        /\ Len(fnIn.quarterlyHistory) >= 3
        /\ QoqDerivable(fnIn.quarterlyHistory, 1)
        /\ QoqDerivable(fnIn.quarterlyHistory, 2)
        /\ fnOut[1].delta = FRound2(FSub(qoqOf(fnIn.quarterlyHistory, 1),
                                         qoqOf(fnIn.quarterlyHistory, 2)))
        /\ fnOut[1].trend = (IF DecGtInt(fnOut[1].delta, 2) THEN "accelerating"
                             ELSE IF DecLtInt(fnOut[1].delta, -2) THEN "decelerating"
                             ELSE "stable")

\* x - x / (1 + yoy / 100) as a fraction, for 1 + yoy / 100 other than 0.
ChangeSincePrior(x, yoy) ==
    FSub(FracOf(x), FDiv(FMul(FracOf(x), Hundred), FAdd(Hundred, FracOf(yoy))))

LeverageInputMissing(c) ==
    \/ IsNull(c.ebitdaMil) \/ IsNull(c.revenueRecentMil)
    \/ IsNull(c.ebitdaYoyPct) \/ IsNull(c.revenueYoyPct)

\* The value of a record none of whose inputs is missing, whose
\* revenueYoyPct is neither 0 nor -100 and whose ebitdaYoyPct is not -100.
ExpectedLeverage(c) ==
    IF ChangeSincePrior(c.revenueRecentMil[1], c.revenueYoyPct[1]).n = 0 THEN Null
    ELSE Some(FRound2(FDiv(ChangeSincePrior(c.ebitdaMil[1], c.ebitdaYoyPct[1]),
                           ChangeSincePrior(c.revenueRecentMil[1], c.revenueYoyPct[1]))))

\* C23: operatingLeverage returns null when one of its four inputs is
\* missing, when revenueYoyPct = 0, when ebitdaYoyPct = -100 or when the
\* revenue delta is 0; in every other case (revenueYoyPct = -100 and
\* revenueRecentMil = 0 included) it evaluates no division by zero and
\* returns a finite number, round(ebitdaDelta / revenueDelta, 2).
C23_LeverageDivisionSafe ==
    fnPc = "leverage" =>
        IF LeverageInputMissing(fnIn) THEN IsNull(fnOut)
        ELSE IF fnIn.revenueYoyPct[1].m = 0 \/ fnIn.ebitdaYoyPct[1] = Dec(-100, 0)
        THEN IsNull(fnOut)
        ELSE IF fnIn.revenueYoyPct[1] = Dec(-100, 0)
        THEN /\ ~leverageDividesByZero(fnIn.ebitdaMil, fnIn.revenueRecentMil,
                                       fnIn.ebitdaYoyPct, fnIn.revenueYoyPct)
             /\ ~IsNull(fnOut) /\ ~fnOut[1].nan
        ELSE fnOut = ExpectedLeverage(fnIn)

\* ------------------------------------------------------------------------
\* dataLoader.js: the auto-refresh interval
\* ------------------------------------------------------------------------

\* C27: at most one catalog auto-refresh interval exists at any time,
\* however often loadAll, refresh and getCompanies ran, and an auto-refresh
\* tick that failed left the interval running and the caches as they were.
C27_OneRefreshTimer ==
    /\ intervals <= 1
    /\ refreshTimer <=> intervals = 1
    /\ (lastOp.kind = "auto" /\ lastOp.threw) =>
          /\ CachesOf(Loader) = lastOp.before
          /\ intervals = 1

\* An auto-refresh tick failed on a published catalog after a refresh had
\* gone through loadAll again.
C27_Witness ==
    /\ lastOp.kind = "auto" /\ lastOp.threw
    /\ cachedCompanies # <<>>
    /\ intervals = 1
    /\ server = "serving"

\* ------------------------------------------------------------------------
\* sheetsPoller.js: fetching the sheet, polling and the cache
\*
\* A call of fetchSheetCSV is a record: pc is "request" while an HTTP
\* request is out, "wait" while a retry timer runs, then "resolved" or
\* "rejected"; requests counts the requests issued and waits lists the
\* delays (in seconds) of the retry timers set.  One fetchAndCache call of
\* the polling timer and one of forceRefresh may run at the same time.  The
\* parse of the sheet is reduced to the stocks it yields and its time.
\* ------------------------------------------------------------------------

\* fetchSheetCSV(retries = 3)
Retries == 3

\* Most requests a call is followed for (redirects are answered to).
MaxRequests == 5

Callers == {"poll", "force"}

Outcomes == {"ok", "status", "redirect", "error", "timeout"}

Sheets == {"sheetA", "sheetB"}

Times == {1, 2}

IdleFetch == [pc |-> "idle", retriesLeft |-> 0, requests |-> 0, waits |-> <<>>]

\* doFetch(url, retriesLeft): one more request.
doFetch(f, retriesLeft) ==
    [f EXCEPT !.pc = "request", !.retriesLeft = retriesLeft, !.requests = @ + 1]

fetchSheetCSV(retries) == doFetch(IdleFetch, retries)

\* A non-200 status, a socket error or a timeout: a retry timer of
\* 1000 * (4 - retriesLeft) ms when retries are left, else reject.
retryOrReject(f) ==
    IF f.retriesLeft > 0
    THEN [f EXCEPT !.pc = "wait", !.waits = Append(@, 4 - f.retriesLeft)]
    ELSE [f EXCEPT !.pc = "rejected"]

\* The request of the call ends with the outcome given.
onOutcome(f, outcome) ==
    IF outcome = "redirect" THEN doFetch(f, f.retriesLeft)
    ELSE IF outcome = "ok" THEN [f EXCEPT !.pc = "resolved"]
    ELSE retryOrReject(f)

\* The callback of the retry timer.
onRetryTimer(f) == doFetch(f, f.retriesLeft - 1)

StocksOf(csv) ==
    IF csv = "sheetA" THEN <<[ticker |-> "AAA", currentPrice |-> 80]>>
    ELSE <<[ticker |-> "AAA", currentPrice |-> 90], [ticker |-> "BBB", currentPrice |-> 5]>>

parseCSV(csvText, now) == [stocks |-> StocksOf(csvText), lastFetchTime |-> now]

SheetCache == [cachedData |-> cachedData, lastFetchTime |-> lastFetchTime]

\* A fetchAndCache that drops the cache when the fetch was rejected.
fetchAndCacheDropping(cache, pc, csv, now) ==
    IF pc = "resolved"
    THEN [cachedData |-> Some(parseCSV(csv, now)), lastFetchTime |-> Some(now)]
    ELSE [cachedData |-> Null, lastFetchTime |-> Null]

\* What fetchAndCache leaves in the cache once its fetch is settled.
fetchAndCache(cache, pc, csv, now) ==
    IF pc = "resolved"
    THEN [cachedData |-> Some(parseCSV(csv, now)), lastFetchTime |-> Some(now)]
    ELSE cache

LoadingPlaceholder == [stocks |-> <<>>, lastFetchTime |-> Null, loading |-> TRUE]

getLiveData(cache) ==
    IF IsNull(cache.cachedData) THEN LoadingPlaceholder
    ELSE [stocks |-> cache.cachedData[1].stocks, lastFetchTime |-> cache.lastFetchTime]

Settled(f) == f.pc \in {"idle", "resolved", "rejected"}

CatalogOff == FnAtRest /\ CatalogAtRest

coreVars == <<fnIn, fnOut, fnPc, disk, portfolioFile, liveData, server, cachedCompanies, cachedAnalyses, cachedRawMarkdown, lastLoadTime, portfolioHoldings, refreshTimer, intervals, storedCompanies, overlaidSinceLoad, response, lastOp>>

\* What a step of the poller leaves alone.
catalogVars == <<coreVars, clientVars>>

InitPoller ==
    /\ CatalogOff
    /\ ClientIdle
    /\ cachedData = Null
    /\ lastFetchTime = Null
    /\ pollingTimer = FALSE
    /\ fetches = [c \in Callers |-> IdleFetch]
    /\ forceAnswer = Null
    /\ lastFetch = [kind |-> "none"]

\* startPolling(): a fetch at once and the interval.
StartPolling ==
    /\ ~pollingTimer
    /\ pollingTimer' = TRUE
    /\ fetches' = [fetches EXCEPT !["poll"] = fetchSheetCSV(Retries)]
    /\ UNCHANGED <<cachedData, lastFetchTime, forceAnswer, lastFetch, catalogVars>>

\* The polling interval fires.
PollTick ==
    /\ pollingTimer
    /\ Settled(fetches["poll"])
    /\ fetches' = [fetches EXCEPT !["poll"] = fetchSheetCSV(Retries)]
    /\ UNCHANGED <<cachedData, lastFetchTime, pollingTimer, forceAnswer, lastFetch, catalogVars>>

\* GET /api/live-portfolio/refresh: forceRefresh() awaits fetchAndCache().
ForceRefresh ==
    /\ Settled(fetches["force"])
    /\ fetches' = [fetches EXCEPT !["force"] = fetchSheetCSV(Retries)]
    /\ forceAnswer' = Null
    /\ UNCHANGED <<cachedData, lastFetchTime, pollingTimer, lastFetch, catalogVars>>

\* fetchAndCache goes on after its fetch f settled; forceRefresh then
\* returns getLiveData().
AfterFetch(c, f, cache) ==
    /\ fetches' = [fetches EXCEPT ![c] = f]
    /\ cachedData' = cache.cachedData
    /\ lastFetchTime' = cache.lastFetchTime
    /\ forceAnswer' = IF c = "force" THEN Some([rejected |-> FALSE, data |-> getLiveData(cache)])
                      ELSE forceAnswer
    /\ lastFetch' = [kind |-> f.pc, caller |-> c, before |-> SheetCache]

Answered(c, f, csv, now) ==
    IF Settled(f) THEN AfterFetch(c, f, fetchAndCache(SheetCache, f.pc, csv, now))
    ELSE /\ fetches' = [fetches EXCEPT ![c] = f]
         /\ UNCHANGED <<cachedData, lastFetchTime, forceAnswer, lastFetch>>

\* The request of a call ends: 200 with a sheet, another status, a
\* redirect, a socket error or a timeout.
RequestEnds ==
    /\ \E c \in Callers, outcome \in Outcomes, csv \in Sheets, now \in Times :
        /\ fetches[c].pc = "request"
        /\ outcome = "redirect" => fetches[c].requests < MaxRequests
        /\ Answered(c, onOutcome(fetches[c], outcome), csv, now)
    /\ UNCHANGED <<pollingTimer, catalogVars>>

RetryTimerFires ==
    /\ \E c \in Callers :
        /\ fetches[c].pc = "wait"
        /\ fetches' = [fetches EXCEPT ![c] = onRetryTimer(fetches[c])]
    /\ UNCHANGED <<cachedData, lastFetchTime, pollingTimer, forceAnswer, lastFetch, catalogVars>>

NextPoller == StartPolling \/ PollTick \/ ForceRefresh \/ RequestEnds \/ RetryTimerFires

SpecPoller == InitPoller /\ [][NextPoller]_vars

\* C25: getLiveData gives the loading placeholder until a fetch succeeded;
\* a failed fetch (of the polling timer or of forceRefresh) leaves
\* cachedData and lastFetchTime as they were, so that cachedData is never
\* null again, and forceRefresh resolves with the data cached.
C25_StaleDataKept ==
    /\ (lastFetch.kind = "rejected") => SheetCache = lastFetch.before
    /\ (lastFetch.kind = "resolved") => ~IsNull(cachedData)
    /\ IsNull(cachedData) => getLiveData(SheetCache) = LoadingPlaceholder
    /\ IsNull(cachedData) =>
          \A c \in Callers : fetches[c].pc # "resolved"
    /\ ~IsNull(forceAnswer) =>
          /\ ~forceAnswer[1].rejected
          /\ (lastFetch.caller = "force") => forceAnswer[1].data = getLiveData(SheetCache)

\* forceRefresh failed after a fetch had succeeded: it gave the stale data.
C25_Witness ==
    /\ lastFetch.kind = "rejected" /\ lastFetch.caller = "force"
    /\ ~IsNull(cachedData)
    /\ ~IsNull(forceAnswer)
    /\ forceAnswer[1].data = getLiveData(SheetCache)
    /\ forceAnswer[1].data.stocks # <<>>
    /\ fetches["force"].requests = 4

\* C30: a call of fetchSheetCSV(3) issues at most 4 requests, whatever the
\* outcomes (200, another status, redirect, socket error, timeout), each
\* unsuccessful request taking one retry, with waits of 1 s, 2 s and 3 s
\* between them.
C30_BoundedRequests ==
    \A c \in Callers :
        /\ fetches[c].requests <= Retries + 1
        /\ fetches[c].waits \in {<<>>, <<1>>, <<1, 2>>, <<1, 2, 3>>}
        /\ fetches[c].pc = "rejected" => fetches[c].requests = Retries + 1

\* ------------------------------------------------------------------------
\* app.js, api.js, companySelector.js, liveSection.js: the browser client
\*
\* The client is a record of its fields; an event handler runs to its next
\* await on a pending fetch, and the response of the fetch resumes it.  A
\* fetch answered from API._cache does not suspend the handler for another
\* event.
\* ------------------------------------------------------------------------

\* Most fetches of one kind awaited at the same time.
MaxPending == 2

Dashboards == {"summary", "growth", "deepdive"}

\* App._selectorDashboards, of the dashboards in use.
SelectorDashboards == {"growth"}

PortfolioTickers == {"AAA"}

AvailableTickers == {"XXX", "YYY"}

TypedTickers == {"AAA", "XXX", "YYY", "ZZZ"}

Client ==
    [currentDashboard |-> currentDashboard,
     comparisonCompanies |-> comparisonCompanies,
     stockRequests |-> stockRequests,
     apiStock |-> apiStock,
     apiLive |-> apiLive,
     liveRenders |-> liveRenders,
     liveRefreshTimer |-> liveRefreshTimer,
     liveTimers |-> liveTimers]

SetClient(c) ==
    /\ currentDashboard' = c.currentDashboard
    /\ comparisonCompanies' = c.comparisonCompanies
    /\ stockRequests' = c.stockRequests
    /\ apiStock' = c.apiStock
    /\ apiLive' = c.apiLive
    /\ liveRenders' = c.liveRenders
    /\ liveRefreshTimer' = c.liveRefreshTimer
    /\ liveTimers' = c.liveTimers

\* LiveSection.stopAutoRefresh()
stopAutoRefresh(c) ==
    IF c.liveRefreshTimer
    THEN [c EXCEPT !.liveRefreshTimer = FALSE, !.liveTimers = @ - 1]
    ELSE c

setLiveInterval(c) == [c EXCEPT !.liveRefreshTimer = TRUE, !.liveTimers = @ + 1]

\* LiveSection._startAutoRefresh()
liveStartAutoRefresh(c) == setLiveInterval(stopAutoRefresh(c))

\* LiveSection.render after the await: nothing when the data is not ready.
liveSectionRendered(c, live) ==
    IF live = "ready" THEN liveStartAutoRefresh(c) ELSE c

\* LiveSection.render up to its await, and beyond when the data is cached.
liveSectionRender(c) ==
    IF c.apiLive # "none" THEN liveSectionRendered(c, c.apiLive)
    ELSE [c EXCEPT !.liveRenders = @ + 1]

\* this.dashboards[this.currentDashboard].destroy?.()
destroyCurrent(c) ==
    IF c.currentDashboard = "summary" THEN stopAutoRefresh(c) ELSE c

dashboardRender(c, name) == IF name = "summary" THEN liveSectionRender(c) ELSE c

\* App.renderDashboard(name)
renderDashboard(c, name) ==
    dashboardRender([destroyCurrent(c) EXCEPT !.currentDashboard = name], name)

\* _addComparison after the await, data being what getStock gave.
comparisonFetched(c, ticker, data) ==
    IF data = "company"
    THEN renderDashboard([c EXCEPT !.comparisonCompanies = Append(@, ticker)],
                         c.currentDashboard)
    ELSE c

\* App._addComparison(ticker) up to its await on API.getStock.
addComparison(c, ticker) ==
    IF c.apiStock[ticker] # "none" THEN comparisonFetched(c, ticker, c.apiStock[ticker])
    ELSE [c EXCEPT !.stockRequests[ticker] = @ + 1]

\* handleAdd of the selector bar with the ticker typed.
handleAdd(c, ticker) ==
    IF ticker \in PortfolioTickers THEN c
    ELSE IF \E i \in DOMAIN c.comparisonCompanies : c.comparisonCompanies[i] = ticker THEN c
    ELSE IF ticker \notin AvailableTickers THEN c
    ELSE addComparison(c, ticker)

\* comparisonCompanies.filter(c => c.ticker !== ticker)
RECURSIVE Without(_, _)
Without(s, ticker) ==
    IF s = <<>> THEN <<>>
    ELSE IF Head(s) = ticker THEN Without(Tail(s), ticker)
    ELSE <<Head(s)>> \o Without(Tail(s), ticker)

\* App._removeComparison(ticker)
removeComparison(c, ticker) ==
    renderDashboard([c EXCEPT !.comparisonCompanies = Without(@, ticker)],
                    c.currentDashboard)

\* The response of a getStock fetch: a company, no company, or a failure.
stockAnswered(c, ticker, outcome) ==
    IF outcome = "error" THEN c
    ELSE comparisonFetched([c EXCEPT !.apiStock[ticker] = outcome], ticker, outcome)

\* The response of a getLivePortfolio fetch awaited by LiveSection.render.
liveAnswered(c, outcome) ==
    IF outcome = "error" THEN c
    ELSE liveSectionRendered([c EXCEPT !.apiLive = outcome], outcome)

serverVars == <<coreVars, pollerVars>>

InitClient ==
    /\ CatalogOff
    /\ PollerIdle
    /\ currentDashboard = "none"
    /\ comparisonCompanies = <<>>
    /\ stockRequests = [t \in AvailableTickers |-> 0]
    /\ apiStock = [t \in AvailableTickers |-> "none"]
    /\ apiLive = "none"
    /\ liveRenders = 0
    /\ liveRefreshTimer = FALSE
    /\ liveTimers = 0

\* The hash changes (or the page loads): App._handleRoute().
Navigate ==
    /\ \E name \in Dashboards :
        /\ name = "summary" /\ apiLive = "none" => liveRenders < MaxPending
        /\ SetClient(renderDashboard(Client, name))
    /\ UNCHANGED serverVars

\* The user types a ticker into the selector bar and clicks Add.
ClickAdd ==
    /\ currentDashboard \in SelectorDashboards
    /\ \E ticker \in TypedTickers :
        /\ (ticker \in AvailableTickers /\ apiStock[ticker] = "none") =>
               stockRequests[ticker] < MaxPending
        /\ SetClient(handleAdd(Client, ticker))
    /\ UNCHANGED serverVars

\* The user clicks the remove button of a comparison tag.
ClickRemove ==
    /\ currentDashboard \in SelectorDashboards
    /\ \E i \in DOMAIN comparisonCompanies :
        SetClient(removeComparison(Client, comparisonCompanies[i]))
    /\ UNCHANGED serverVars

\* GET /api/stock/:ticker answers one of the fetches awaited.
StockResponse ==
    /\ \E ticker \in AvailableTickers, outcome \in {"company", "nocompany", "error"} :
        /\ stockRequests[ticker] > 0
        /\ SetClient(stockAnswered([Client EXCEPT !.stockRequests[ticker] = @ - 1],
                                   ticker, outcome))
    /\ UNCHANGED serverVars

\* GET /api/live-portfolio answers one of the fetches awaited.
LiveResponse ==
    /\ liveRenders > 0
    /\ \E outcome \in {"ready", "loading", "error"} :
        SetClient(liveAnswered([Client EXCEPT !.liveRenders = @ - 1], outcome))
    /\ UNCHANGED serverVars

\* The interval of LiveSection fires: the cache entry is cleared and
\* fetched again.
LiveTimerTick ==
    /\ liveTimers > 0
    /\ \E cached \in {"none", "ready", "loading"} :
        SetClient([Client EXCEPT !.apiLive = cached])
    /\ UNCHANGED serverVars

NextClient ==
    Navigate \/ ClickAdd \/ ClickRemove \/ StockResponse \/ LiveResponse \/ LiveTimerTick

SpecClient == InitClient /\ [][NextClient]_vars

\* C28: under every interleaving of add and remove actions with pending
\* getStock responses, comparisonCompanies holds no ticker twice and no
\* ticker of the portfolio list.
C28_ComparisonsDistinct ==
    /\ \A i, j \in DOMAIN comparisonCompanies :
          i # j => comparisonCompanies[i] # comparisonCompanies[j]
    /\ \A i \in DOMAIN comparisonCompanies : comparisonCompanies[i] \notin PortfolioTickers

\* C29: at most one LiveSection interval exists at any time, and one exists
\* only while the summary dashboard is the current dashboard, also when the
\* user navigates away while a summary render awaits the live portfolio.
C29_LiveTimerOnlyOnSummary ==
    /\ liveTimers <= 1
    /\ liveTimers > 0 => currentDashboard = "summary"

===========================================================================
